---- MODULE Spec2Model ----
(***************************************************************************)
(* Model of the nekocast danmaku gateway: the blacklist service and its    *)
(* file watcher, the DanmakuFilter deduplicator, the DedupQueue, the       *)
(* ConnectionManager registry with its fan-out, the upstream / viewer      *)
(* WebSocket handlers, the EmojiCache (store, maintenance loop and the     *)
(* semaphores of load_emoji), and DanmakuBuilder.create for plain text.    *)
(*                                                                         *)
(* Strings are tuples of one-character strings.  Optional string fields    *)
(* (sender, senderId, token) use the empty tuple for both None and "":     *)
(* every test the code makes on them is a truthiness test.                 *)
(* Blacklist patterns are the literal (metacharacter-free) regexes; the    *)
(* line "(" stands for a line regex.compile rejects.                       *)
(***************************************************************************)
EXTENDS Integers, Sequences, FiniteSets, TLC

(* ------------------------------------------------------------------ *)
(* Bounds of the model                                                  *)
(* ------------------------------------------------------------------ *)
MaxViewers == 3
MaxBroadcasts == 1
MaxReloadMsgs == 2
MaxFilterMsgs == 3
MaxTime == 3
MaxWindow == 2
MaxEdits == 1
MaxCalls == 11
MaxSleeps == 2
MaxPieces == 5

(* ------------------------------------------------------------------ *)
(* Strings                                                              *)
(* ------------------------------------------------------------------ *)
NoStr == << >>

Star == "*"

Crown == "CROWN"

Lower(ch) ==
    CASE ch = "B" -> "b"
      [] ch = "S" -> "s"
      [] OTHER -> ch

IsSpace(ch) == ch = " "

IsAscii(ch) == ch # "U+00E9"

RECURSIVE LStrip(_)
LStrip(s) ==
    IF s # << >> /\ IsSpace(Head(s)) THEN LStrip(Tail(s)) ELSE s

RECURSIVE RStrip(_)
RStrip(s) ==
    IF s # << >> /\ IsSpace(s[Len(s)]) THEN RStrip(SubSeq(s, 1, Len(s) - 1)) ELSE s

Strip(s) == RStrip(LStrip(s))

(* Stars with one asterisk whatever the length of the match *)
OneStar(n) == << Star >>

(* '*' * len(m.group(0)) *)
Stars(n) == [i \in 1..n |-> Star]

(* pattern.match at position i of s, under regex.IGNORECASE *)
MatchAt(pat, s, i) ==
    /\ i + Len(pat) - 1 <= Len(s)
    /\ \A k \in 1..Len(pat) : Lower(s[i + k - 1]) = Lower(pat[k])

(* pattern.search(s) *)
Search(pat, s) == \E i \in 1..Len(s) : MatchAt(pat, s, i)

(* pattern.sub(lambda m: '*' * len(m.group(0)), s): leftmost non-overlapping
   matches, scanned from position i on *)
RECURSIVE SubFrom(_, _, _)
SubFrom(pat, s, i) ==
    IF i > Len(s) THEN << >>
    ELSE IF MatchAt(pat, s, i)
         THEN Stars(Len(pat)) \o SubFrom(pat, s, i + Len(pat))
         ELSE << s[i] >> \o SubFrom(pat, s, i + 1)

Sub(pat, s) == SubFrom(pat, s, 1)

(* ------------------------------------------------------------------ *)
(* Blacklist files and their loading                                    *)
(* ------------------------------------------------------------------ *)
(* regex.compile succeeds on the line *)
Compiles(line) == \A k \in 1..Len(line) : line[k] # "("

(* BlacklistService._load_lines: strip, drop blank lines and # comments *)
RECURSIVE LoadLines(_)
LoadLines(lines) ==
    IF lines = << >> THEN << >>
    ELSE LET l == Strip(Head(lines))
         IN  IF l # << >> /\ l[1] # "#"
             THEN << l >> \o LoadLines(Tail(lines))
             ELSE LoadLines(Tail(lines))

RECURSIVE CompileAll(_)
CompileAll(lines) ==
    IF lines = << >> THEN << >>
    ELSE IF Compiles(Head(lines))
         THEN << Head(lines) >> \o CompileAll(Tail(lines))
         ELSE CompileAll(Tail(lines))

(* the value load_patterns assigns to _patterns *)
LoadedPatterns(file) == CompileAll(LoadLines(file))

(* the value load_users assigns to _forbidden_users *)
LoadedUsers(file) == { LoadLines(file)[i] : i \in 1..Len(LoadLines(file)) }

(* ------------------------------------------------------------------ *)
(* Messages                                                             *)
(* ------------------------------------------------------------------ *)
HasText(m) == m.type \in {"plain", "superchat"}

IsMonetary(m) == m.type \in {"superchat", "gift"}

Msg(type, text, sender, senderId) ==
    [type |-> type, text |-> text, sender |-> sender, senderId |-> senderId,
     is_special |-> FALSE]

(* ------------------------------------------------------------------ *)
(* BlacklistService.should_filter, in the three reads it makes          *)
(* ------------------------------------------------------------------ *)
ForbiddenHit(m, users) == m.senderId # NoStr /\ m.senderId \in users

RECURSIVE RewriteName(_, _)
RewriteName(name, pats) ==
    IF pats = << >> THEN name
    ELSE IF Search(Head(pats), name)
         THEN RewriteName(Sub(Head(pats), name), Tail(pats))
         ELSE RewriteName(name, Tail(pats))

RewriteSender(m, pats) ==
    IF IsMonetary(m) /\ m.sender # NoStr
    THEN [m EXCEPT !.sender = RewriteName(m.sender, pats)]
    ELSE m

TextHit(m, pats) ==
    /\ HasText(m)
    /\ m.text # NoStr
    /\ \E k \in 1..Len(pats) : Search(pats[k], m.text)

(* ------------------------------------------------------------------ *)
(* Sessions, channels, configuration                                    *)
(* ------------------------------------------------------------------ *)
Channels == {"a", "b"}

Viewers == 1..MaxViewers

Upstreams == {101}

Sessions == Viewers \cup Upstreams

(* the {group} of the URL a viewer session connects to *)
GroupOf(v) == IF v % 2 = 1 THEN "a" ELSE "b"

PolicyViolation == 1008

NoTask == 0

NoSession == 0

NoGroup == "-"

VARIABLES
    client_connections,    \* ConnectionManager.client_connections: group -> set
    upstream_connections,  \* ConnectionManager.upstream_connections
    sock,                  \* per session: state of its WebSocket
    closeCode,             \* per session: code of an explicit close(code=...)
    vpc,                   \* per viewer: position of client_websocket
    up,                    \* per upstream: upstream_websocket and its broadcast
    delivered,             \* per session: the broadcast frames send_text gave it
    errorFrames,           \* per upstream: the error frames sent to it
    running,               \* the task inside BlacklistService.should_filter
    da,                    \* the disconnect_all coroutine
    nb,                    \* packets received so far
    budget,                \* packets the peers send in all
    config_upstream,       \* config.upstream
    filter_blacklist,      \* DanmakuFilter.blacklist is not None
    watchdog,              \* BlacklistService.watchdog is not None
    patterns,              \* BlacklistService._patterns
    forbidden_users,       \* BlacklistService._forbidden_users
    dedup_window,          \* DanmakuFilter.dedup_window
    recent_messages,       \* DanmakuFilter.recent_messages
    now,                   \* time.time()
    pattern_file,          \* content of the patterns file
    user_file,             \* content of the forbidden-users file
    events,                \* file-system events queued for the observer thread
    wpc,                   \* observer thread: position in reload
    edits,                 \* file edits made so far
    published,             \* the (patterns, users) pairs complete reloads left
    dq,                    \* a DedupQueue and the result of its last add
    danmaku_filter,        \* ConnectionManager.danmaku_filter: the filter it was given
    emoji,                 \* EmojiCache: its store, its semaphores and the load_emoji calls
    built                  \* DanmakuBuilder.create: the elements it is given and its result

cmVars == << client_connections, upstream_connections, sock, closeCode, vpc, up,
             delivered, errorFrames, running, da, nb, budget, config_upstream >>

blVars == << filter_blacklist, watchdog, patterns, forbidden_users >>

fileVars == << pattern_file, user_file, events, wpc, edits, published >>

dedupVars == << dedup_window, recent_messages >>

vars == << cmVars, blVars, fileVars, dedupVars, now, dq, danmaku_filter, emoji, built >>

(* ------------------------------------------------------------------ *)
(* The registry: a defaultdict(set)                                     *)
(* ------------------------------------------------------------------ *)
Get(cc, g) == IF g \in DOMAIN cc THEN cc[g] ELSE {}

Put(cc, g, s) == [k \in DOMAIN cc \cup {g} |-> IF k = g THEN s ELSE cc[k]]

Del(cc, g) == [k \in DOMAIN cc \ {g} |-> cc[k]]

(* ConnectionManager.disconnect_client *)
disconnect_client(cc, ws, g) ==
    LET s == Get(cc, g) \ {ws}
    IN  IF s = {} THEN Del(cc, g) ELSE Put(cc, g, s)

(* for ws in disconnected: self.disconnect_client(ws, group) *)
RECURSIVE disconnect_each(_, _, _)
disconnect_each(cc, wss, g) ==
    IF wss = {} THEN cc
    ELSE LET ws == CHOOSE x \in wss : TRUE
         IN  disconnect_each(disconnect_client(cc, ws, g), wss \ {ws}, g)

(* ------------------------------------------------------------------ *)
(* A task of upstream_websocket                                         *)
(* ------------------------------------------------------------------ *)
NoMsg == Msg("none", NoStr, NoStr, NoStr)

(* pc: new, rejected, auth_error, recv, bl_name, bl_text, sending, errsend,
       crashed, done.
   startSet, pending, siUsed, detached: the set iterator of the fan-out (the
       set when the loop started, the entries in slots still ahead, the size
       the iterator remembers, whether the set has left the registry).
   tried, failed: the sessions whose send_text has completed, and the list
       disconnected.
   from, reads: the reads of the blacklist state the decision has made, and
       the number of complete reloads when it started.
   packet, error: the payload fields of the frame received last, and the
       exception its handling has raised. *)
IdleTask ==
    [pc |-> "new", token |-> NoStr, id |-> 0, kind |-> "none", grp |-> NoGroup,
     orig |-> NoMsg, msg |-> NoMsg, time |-> 0, startSet |-> {}, pending |-> {},
     siUsed |-> 0, cur |-> NoSession, tried |-> {}, failed |-> {},
     detached |-> FALSE, from |-> 0, reads |-> << >>, result |-> "none",
     verdict |-> "none", packet |-> "none", error |-> "none"]

(* the payload fields of a frame: packet.danmaku, packet.control *)
HasDanmaku(pkt) == pkt.kind \in {"danmaku", "both"}

HasControl(pkt) == pkt.kind \in {"control", "both"}

(* DanmakuPacket.ensure_payload: ValueError when both fields are missing *)
ensure_payload(pkt) == ~(~HasDanmaku(pkt) /\ ~HasControl(pkt))

(* DanmakuPacket.model_validate_json: the text is the JSON of a packet and
   the validator accepts it *)
Validates(pkt) == pkt.kind # "malformed" /\ ensure_payload(pkt)

(* the task when a frame has been received: if packet.control the handler
   goes on with the control and never looks at packet.danmaku *)
Fresh(t, id, pkt) ==
    [IdleTask EXCEPT !.pc = t.pc, !.token = t.token, !.id = id,
                     !.packet = pkt.kind,
                     !.kind = IF HasControl(pkt) THEN "control" ELSE "danmaku",
                     !.grp = pkt.group,
                     !.orig = IF HasControl(pkt) THEN NoMsg ELSE pkt.msg,
                     !.msg = IF HasControl(pkt) THEN NoMsg ELSE pkt.msg]

Iterating(t) == t.pc = "sending"

(* the registry went from old to new while tasks other than self iterate over
   one of its sets: a discarded entry leaves the slots ahead of the iterator;
   a deleted key leaves the iterator on a set that is empty for good *)
Touch(upf, old, new, self) ==
    [x \in DOMAIN upf |->
        IF x = self \/ ~Iterating(upf[x]) \/ upf[x].detached THEN upf[x]
        ELSE IF upf[x].grp \notin DOMAIN new
        THEN [upf[x] EXCEPT !.detached = TRUE, !.pending = {}]
        ELSE [upf[x] EXCEPT !.pending = @ \cap Get(new, upf[x].grp)]]

(* the sets disconnect_all still holds from items() that left the registry *)
DaTouch(d, old, new) ==
    IF d.pc = "viewers"
    THEN [d EXCEPT !.det = d.det \cup
             { g \in DOMAIN old : /\ g \notin DOMAIN new
                                  /\ \E i \in 1..Len(d.groups) : d.groups[i] = g }]
    ELSE d

(* ------------------------------------------------------------------ *)
(* Fan-out: for websocket in self.client_connections[group]             *)
(* ------------------------------------------------------------------ *)
(* the broadcast coroutine ends: normally, or with an exception that
   upstream_websocket catches to send the error frame *)
Returned(t, verdict) ==
    [IdleTask EXCEPT !.pc = "recv", !.token = t.token, !.id = t.id,
                     !.grp = t.grp, !.packet = t.packet, !.result = "returned",
                     !.verdict = verdict]

Raised(t, verdict, error) ==
    [IdleTask EXCEPT !.pc = "errsend", !.token = t.token, !.id = t.id,
                     !.grp = t.grp, !.packet = t.packet, !.result = "raised",
                     !.verdict = verdict, !.error = error]

(* Targets with a loop over every registered session *)
TargetsEverySession(t) ==
    UNION { client_connections[g] : g \in DOMAIN client_connections }
        \cup upstream_connections

(* self.client_connections[group]: the sessions a broadcast on t.grp goes to *)
Targets(t) == Get(client_connections, t.grp)

(* len(set) as the set iterator sees it *)
IterSize(t) == IF t.detached THEN 0 ELSE Cardinality(Targets(t))

(* next(iterator), then either the next send_text is awaited, or the loop is
   over and the failed sessions are removed, or RuntimeError (Set changed size
   during iteration) leaves the coroutine *)
Iterate(u, t) ==
    IF IterSize(t) # t.siUsed
    THEN /\ up' = [up EXCEPT ![u] = Raised(t, "pass", "RuntimeError")]
         /\ UNCHANGED << client_connections, da >>
    ELSE IF t.pending = {}
    THEN LET cc2 == disconnect_each(client_connections, t.failed, t.grp)
         IN  /\ client_connections' = cc2
             /\ up' = Touch([up EXCEPT ![u] = Returned(t, "pass")],
                            client_connections, cc2, u)
             /\ da' = DaTouch(da, client_connections, cc2)
    ELSE /\ \E v \in t.pending :
              up' = [up EXCEPT ![u] = [t EXCEPT !.pc = "sending", !.cur = v,
                                                !.pending = t.pending \ {v}]]
         /\ UNCHANGED << client_connections, da >>

(* iter(self.client_connections[group]) *)
StartFanOut(u, t) ==
    Iterate(u, [t EXCEPT !.startSet = Targets(t), !.pending = Targets(t),
                         !.siUsed = Cardinality(Targets(t)), !.detached = FALSE,
                         !.tried = {}, !.failed = {}])

(* the frame model_dump_json / json.dumps serialised, with the time and the
   number of the packet it came from *)
Frame(t) ==
    [id |-> t.id, kind |-> t.kind, group |-> t.grp, msg |-> t.msg, time |-> t.time]

(* websocket.send_text raises unless the socket is open *)
SendRaises(v) == sock[v] # "open"

(* try: await websocket.send_text(...) except Exception: disconnected.append *)
AfterSend(t, v) ==
    [t EXCEPT !.tried = @ \cup {v},
              !.failed = IF SendRaises(v) THEN @ \cup {v} ELSE @]

(* send_text with the frame put ahead of the frames sent before *)
send_text_ahead(log, v, frame) == [log EXCEPT ![v] = << frame >> \o @]

(* websocket.send_text on an open socket: the peer gets the frames of one
   socket in the order of the calls *)
send_text(log, v, frame) == [log EXCEPT ![v] = Append(@, frame)]

(* the awaited send_text of task u completes *)
broadcast_send_done(u) ==
    /\ running = NoTask
    /\ up[u].pc = "sending"
    /\ delivered' = IF SendRaises(up[u].cur) THEN delivered
                    ELSE send_text(delivered, up[u].cur, Frame(up[u]))
    /\ Iterate(u, AfterSend(up[u], up[u].cur))
    /\ UNCHANGED << upstream_connections, sock, closeCode, vpc, errorFrames,
                    running, nb, budget, config_upstream, blVars, fileVars,
                    dedupVars, now, dq, danmaku_filter, emoji, built >>

(* ------------------------------------------------------------------ *)
(* DanmakuFilter.should_filter and broadcast_to_group before the loop   *)
(* ------------------------------------------------------------------ *)
(* Prune with >= for >: an entry is dropped when it is exactly window old *)
RECURSIVE PruneAtWindow(_, _, _)
PruneAtWindow(recent, current_time, window) ==
    IF recent # << >> /\ current_time - Head(recent).ts >= window
    THEN PruneAtWindow(Tail(recent), current_time, window)
    ELSE recent

(* while recent and current_time - recent[0][1] > self.dedup_window: popleft *)
RECURSIVE Prune(_, _, _)
Prune(recent, current_time, window) ==
    IF recent # << >> /\ current_time - Head(recent).ts > window
    THEN Prune(Tail(recent), current_time, window)
    ELSE recent

(* for recent_text, _ in recent: if recent_text == text *)
Seen(recent, text) == \E i \in 1..Len(recent) : recent[i].text = text

(* message.type in ('plain', 'superchat') and self.dedup_window > 0 *)
Dedups(m) == HasText(m) /\ dedup_window > 0

IsDuplicate(t) ==
    /\ Dedups(t.msg)
    /\ Seen(Prune(recent_messages[t.grp], t.time, dedup_window), t.msg.text)

(* recent_messages once the dedup part has run *)
RecentAfter(t) ==
    IF ~Dedups(t.msg) THEN recent_messages
    ELSE LET kept == Prune(recent_messages[t.grp], t.time, dedup_window)
         IN  [recent_messages EXCEPT ![t.grp] =
                 IF Seen(kept, t.msg.text) THEN kept
                 ELSE Append(kept, [text |-> t.msg.text, ts |-> t.time])]

(* message.text += crown raises AttributeError on a variant without text *)
CrownRaises(m) == m.is_special /\ ~HasText(m)

WithCrown(m) ==
    IF m.is_special /\ HasText(m) THEN [m EXCEPT !.text = @ \o << Crown >>] ELSE m

(* a read of _forbidden_users or of _patterns, as the decision records it *)
UsersRead(users) == [what |-> "users", users |-> users, patterns |-> << >>]

PatternsRead(pats) == [what |-> "patterns", users |-> {}, patterns |-> pats]

(* the name part reads _patterns only for a monetary message with a sender *)
ReadsName(m) == IsMonetary(m) /\ m.sender # NoStr

(* the text part reads _patterns only for a non-empty text *)
ReadsText(m) == HasText(m) /\ m.text # NoStr

(* the blacklist did not block: dedup, crown, serialise, start the loop *)
AfterBlacklist(u, t) ==
    /\ recent_messages' = RecentAfter(t)
    /\ running' = NoTask
    /\ IF IsDuplicate(t)
       THEN /\ up' = [up EXCEPT ![u] = Returned(t, "duplicate")]
            /\ UNCHANGED << client_connections, da >>
       ELSE IF CrownRaises(t.msg)
       THEN /\ up' = [up EXCEPT ![u] = Raised(t, "pass", "AttributeError")]
            /\ UNCHANGED << client_connections, da >>
       ELSE StartFanOut(u, [t EXCEPT !.msg = WithCrown(t.msg), !.verdict = "pass",
                                      !.reads = << >>, !.from = 0])

(* line 102: the read of _forbidden_users *)
should_filter_users(u, t) ==
    IF ForbiddenHit(t.msg, forbidden_users)
    THEN /\ up' = [up EXCEPT ![u] = Returned(t, "blacklist")]
         /\ running' = NoTask
         /\ UNCHANGED << client_connections, da, recent_messages >>
    ELSE /\ up' = [up EXCEPT ![u] =
                     [t EXCEPT !.pc = "bl_name",
                               !.reads = IF t.msg.senderId # NoStr
                                         THEN << UsersRead(forbidden_users) >>
                                         ELSE << >>]]
         /\ running' = u
         /\ UNCHANGED << client_connections, da, recent_messages >>

(* lines 107-112: the first read of _patterns, rewriting the sender name *)
should_filter_name(u) ==
    /\ running = u
    /\ up[u].pc = "bl_name"
    /\ up' = [up EXCEPT ![u] =
                 [@ EXCEPT !.pc = "bl_text",
                           !.msg = RewriteSender(@, patterns),
                           !.reads = IF ReadsName(up[u].msg)
                                     THEN Append(@, PatternsRead(patterns))
                                     ELSE @]]
    /\ UNCHANGED << client_connections, upstream_connections, sock, closeCode, vpc,
                    delivered, errorFrames, running, da, nb, budget,
                    config_upstream, blVars, fileVars, dedupVars, now, dq, danmaku_filter, emoji, built >>

(* lines 116-125: the second read of _patterns, on the text; then the rest of
   DanmakuFilter.should_filter and of broadcast_to_group *)
should_filter_text(u) ==
    /\ running = u
    /\ up[u].pc = "bl_text"
    /\ IF TextHit(up[u].msg, patterns)
       THEN /\ up' = [up EXCEPT ![u] = Returned(@, "blacklist")]
            /\ running' = NoTask
            /\ UNCHANGED << client_connections, da, recent_messages >>
       ELSE AfterBlacklist(u, up[u])
    /\ UNCHANGED << upstream_connections, sock, closeCode, vpc, delivered,
                    errorFrames, nb, budget, config_upstream, blVars, fileVars,
                    dedup_window, now, dq, danmaku_filter, emoji, built >>

(* broadcast_to_group up to the first suspension or thread switch; line 301
   calls should_filter outside any try *)
broadcast_to_group(u, t) ==
    IF t.grp \notin DOMAIN client_connections
    THEN /\ up' = [up EXCEPT ![u] = Returned(t, "noviewers")]
         /\ UNCHANGED << client_connections, da, recent_messages, running >>
    ELSE IF danmaku_filter = "raises"
    THEN /\ up' = [up EXCEPT ![u] = Raised(t, "none", "filter")]
         /\ UNCHANGED << client_connections, da, recent_messages, running >>
    ELSE IF filter_blacklist
    THEN should_filter_users(u, [t EXCEPT !.time = now, !.from = Len(published)])
    ELSE AfterBlacklist(u, [t EXCEPT !.time = now, !.from = Len(published)])

(* broadcast_control up to the first awaited send *)
broadcast_control(u, t) ==
    /\ IF t.grp \notin DOMAIN client_connections
       THEN /\ up' = [up EXCEPT ![u] = Returned(t, "noviewers")]
            /\ UNCHANGED << client_connections, da >>
       ELSE StartFanOut(u, [t EXCEPT !.verdict = "pass"])
    /\ UNCHANGED << recent_messages, running >>

(* ------------------------------------------------------------------ *)
(* routes.client_websocket                                              *)
(* ------------------------------------------------------------------ *)
(* a set iterated by the tasks in ahead gets v in a slot the iterator has yet
   to reach; the other iterators have passed v's slot *)
Added(upf, g, v, ahead) ==
    [x \in Upstreams |->
        IF Iterating(upf[x]) /\ ~upf[x].detached /\ upf[x].grp = g
        THEN [upf[x] EXCEPT !.pending = IF x \in ahead THEN @ \cup {v} ELSE @]
        ELSE upf[x]]

(* a connection to /danmaku/{group} arrives: connect_client.  The await of
   websocket.accept() is not a step of its own: until add() runs no other task
   can see the session *)
connect_client(v) ==
    /\ running = NoTask
    /\ vpc[v] = "new"
    /\ vpc' = [vpc EXCEPT ![v] = "recv"]
    /\ sock' = [sock EXCEPT ![v] = "open"]
    /\ client_connections' = Put(client_connections, GroupOf(v),
                                 Get(client_connections, GroupOf(v)) \cup {v})
    /\ \E ahead \in SUBSET { x \in Upstreams : /\ Iterating(up[x])
                                               /\ ~up[x].detached
                                               /\ up[x].grp = GroupOf(v) } :
          up' = Added(up, GroupOf(v), v, ahead)
    /\ UNCHANGED << upstream_connections, closeCode, delivered, errorFrames,
                    running, da, nb, budget, config_upstream, blVars, fileVars, dedupVars,
                    now, dq, danmaku_filter, emoji, built >>

(* receive_text raises WebSocketDisconnect: disconnect_client *)
client_websocket_disconnect(v) ==
    LET cc2 == disconnect_client(client_connections, v, GroupOf(v))
    IN  /\ running = NoTask
        /\ vpc[v] = "recv"
        /\ sock[v] # "open"
        /\ vpc' = [vpc EXCEPT ![v] = "done"]
        /\ client_connections' = cc2
        /\ up' = Touch(up, client_connections, cc2, NoTask)
        /\ da' = DaTouch(da, client_connections, cc2)
        /\ UNCHANGED << upstream_connections, sock, closeCode, delivered,
                        errorFrames, running, nb, budget, config_upstream, blVars,
                        fileVars, dedupVars, now, dq, danmaku_filter, emoji, built >>

(* the peer of an open socket goes away *)
peer_drop(s) ==
    /\ sock[s] = "open"
    /\ sock' = [sock EXCEPT ![s] = "closed"]
    /\ UNCHANGED << client_connections, upstream_connections, closeCode, vpc, up,
                    delivered, errorFrames, running, da, nb, budget, config_upstream,
                    blVars, fileVars, dedupVars, now, dq, danmaku_filter, emoji, built >>

(* ------------------------------------------------------------------ *)
(* routes.upstream_websocket                                            *)
(* ------------------------------------------------------------------ *)
Tokens == { NoStr, << "s" >>, << " ", "s" >>, << "x" >>, << "U+00E9" >> }

Configs == { [present |-> FALSE, token |-> NoStr], [present |-> TRUE, token |-> << "s" >>] }

AllAscii(s) == \A k \in 1..Len(s) : IsAscii(s[k])

(* hmac.compare_digest on two str raises TypeError unless both are ASCII *)
CompareRaises(a, b) == ~AllAscii(a) \/ ~AllAscii(b)

(* the outcome of lines 52-65 for this token *)
AuthOutcome(token, cfg) ==
    IF token = NoStr THEN "close"
    ELSE IF ~cfg.present THEN "close"
    ELSE IF CompareRaises(Strip(token), cfg.token) THEN "error"
    ELSE IF Strip(token) # cfg.token THEN "close"
    ELSE "accept"

(* a connection to /upstream arrives: the token check, then either close, an
   exception of compare_digest, or connect_upstream (accept and add) *)
upstream_connect(u, token) ==
    LET outcome == AuthOutcome(token, config_upstream)
    IN  /\ running = NoTask
        /\ up[u].pc = "new"
        /\ up' = [up EXCEPT ![u] = [@ EXCEPT !.token = token,
                     !.pc = CASE outcome = "close" -> "rejected"
                              [] outcome = "error" -> "auth_error"
                              [] OTHER -> "recv"]]
        /\ sock' = [sock EXCEPT ![u] = IF outcome = "accept" THEN "open" ELSE "closed"]
        /\ closeCode' = [closeCode EXCEPT ![u] =
                            IF outcome = "close" THEN PolicyViolation ELSE @]
        /\ upstream_connections' =
               IF outcome = "accept" THEN upstream_connections \cup {u}
               ELSE upstream_connections
        /\ UNCHANGED << client_connections, vpc, delivered, errorFrames, running,
                        da, nb, budget, config_upstream, blVars, fileVars, dedupVars, now,
                        dq, danmaku_filter, emoji, built >>

(* a text frame is received, parsed and dispatched; a frame that fails
   model_validate_json goes to the except clause of line 91 *)
upstream_receive(u, pkt) ==
    LET t == Fresh(up[u], nb + 1, pkt)
    IN  /\ running = NoTask
        /\ up[u].pc = "recv"
        /\ sock[u] = "open"
        /\ nb < budget
        /\ nb' = nb + 1
        /\ IF ~Validates(pkt)
           THEN /\ up' = [up EXCEPT ![u] = Raised(t, "none", "validation")]
                /\ UNCHANGED << client_connections, da, recent_messages, running >>
           ELSE IF HasControl(pkt)
           THEN broadcast_control(u, t)
           ELSE broadcast_to_group(u, [t EXCEPT !.msg.is_special = TRUE])
        /\ UNCHANGED << upstream_connections, sock, closeCode, vpc, delivered,
                        errorFrames, budget, config_upstream, blVars,
                        fileVars, dedup_window, now, dq, danmaku_filter, emoji, built >>

(* receive_text raises WebSocketDisconnect: disconnect_upstream *)
upstream_disconnect(u) ==
    /\ running = NoTask
    /\ up[u].pc = "recv"
    /\ sock[u] # "open"
    /\ up' = [up EXCEPT ![u] = [@ EXCEPT !.pc = "done"]]
    /\ upstream_connections' = upstream_connections \ {u}
    /\ UNCHANGED << client_connections, sock, closeCode, vpc, delivered,
                    errorFrames, running, da, nb, budget, config_upstream, blVars,
                    fileVars, dedupVars, now, dq, danmaku_filter, emoji, built >>

(* upstream_error_sent with the upstream closed and deregistered once the
   error frame is out *)
upstream_error_sent_then_dropped(u) ==
    /\ running = NoTask
    /\ up[u].pc = "errsend"
    /\ sock[u] = "open"
    /\ up' = [up EXCEPT ![u] = [@ EXCEPT !.pc = "done"]]
    /\ sock' = [sock EXCEPT ![u] = "closed"]
    /\ upstream_connections' = upstream_connections \ {u}
    /\ errorFrames' = [errorFrames EXCEPT ![u] =
                          Append(@, [id |-> up[u].id, error |-> up[u].error])]
    /\ UNCHANGED << client_connections, closeCode, vpc, delivered, running, da,
                    nb, budget, config_upstream, blVars, fileVars, dedupVars,
                    now, dq, danmaku_filter, emoji, built >>

(* the awaited send_text of the error frame completes *)
upstream_error_sent(u) ==
    /\ running = NoTask
    /\ up[u].pc = "errsend"
    /\ sock[u] = "open"
    /\ up' = [up EXCEPT ![u] = [@ EXCEPT !.pc = "recv"]]
    /\ errorFrames' = [errorFrames EXCEPT ![u] =
                          Append(@, [id |-> up[u].id, error |-> up[u].error])]
    /\ UNCHANGED << client_connections, upstream_connections, sock, closeCode,
                    vpc, delivered, running, da, nb, budget, config_upstream, blVars,
                    fileVars, dedupVars, now, dq, danmaku_filter, emoji, built >>

(* the send_text of the error frame raises on a socket that is not open:
   WebSocketDisconnect reaches the outer except (disconnect_upstream); any
   other exception leaves the handler with the session still registered *)
upstream_error_send_fails(u) ==
    /\ running = NoTask
    /\ up[u].pc = "errsend"
    /\ sock[u] # "open"
    /\ \/ /\ up' = [up EXCEPT ![u] = [@ EXCEPT !.pc = "done"]]
          /\ upstream_connections' = upstream_connections \ {u}
       \/ /\ up' = [up EXCEPT ![u] = [@ EXCEPT !.pc = "crashed"]]
          /\ UNCHANGED upstream_connections
    /\ UNCHANGED << client_connections, sock, closeCode, vpc, delivered,
                    errorFrames, running, da, nb, budget, config_upstream, blVars,
                    fileVars, dedupVars, now, dq, danmaku_filter, emoji, built >>

(* ------------------------------------------------------------------ *)
(* ConnectionManager.disconnect_all                                     *)
(* ------------------------------------------------------------------ *)
(* start, snap: the viewers registered when disconnect_all started, and the
   upstreams list(self.upstream_connections) held *)
DaIdle ==
    [pc |-> "idle", groups |-> << >>, cur |-> NoGroup, list |-> {},
     closing |-> NoSession, det |-> {}, start |-> {}, snap |-> {}]

Started ==
    IF da.pc = "idle"
    THEN UNION { client_connections[g] : g \in DOMAIN client_connections }
    ELSE da.start

Snapped == IF da.pc = "upstreams" THEN da.snap ELSE upstream_connections

(* the orders list(self.client_connections.items()) can have *)
Orders(S) ==
    { q \in [1..Cardinality(S) -> S] : \A i, j \in 1..Cardinality(S) : q[i] = q[j] => i = j }

(* the outer loop from its next group on: list(websockets) of a set that left
   the registry is empty; an empty list goes straight to
   self.client_connections[group].clear() *)
RECURSIVE da_walk(_, _, _)
da_walk(cc, groups, det) ==
    IF groups = << >>
    THEN [cc |-> cc, cur |-> NoGroup, list |-> {}, groups |-> << >>]
    ELSE LET g == Head(groups)
             snapshot == IF g \in det THEN {} ELSE Get(cc, g)
         IN  IF snapshot = {}
             THEN da_walk(Put(cc, g, {}), Tail(groups), det)
             ELSE [cc |-> cc, cur |-> g, list |-> snapshot, groups |-> Tail(groups)]

(* self.upstream_connections.clear(); self.danmaku_filter.close() *)
da_finish ==
    /\ da' = [DaIdle EXCEPT !.pc = "done", !.start = Started, !.snap = Snapped]
    /\ upstream_connections' = {}
    /\ filter_blacklist' = FALSE
    /\ watchdog' = IF filter_blacklist THEN FALSE ELSE watchdog

(* for ws in list(self.upstream_connections): await ws.close() *)
da_upstreams ==
    IF upstream_connections = {}
    THEN da_finish
    ELSE /\ \E ws \in upstream_connections :
              da' = [DaIdle EXCEPT !.pc = "upstreams", !.closing = ws,
                                   !.list = upstream_connections \ {ws},
                                   !.start = Started,
                                   !.snap = upstream_connections]
         /\ UNCHANGED << upstream_connections, filter_blacklist, watchdog >>

(* the viewer loop goes on with the groups left, up to the next awaited close *)
da_groups(cc, groups, det) ==
    LET w == da_walk(cc, groups, det)
    IN  /\ client_connections' = w.cc
        /\ up' = Touch(up, client_connections, w.cc, NoTask)
        /\ IF w.cur = NoGroup
           THEN da_upstreams
           ELSE /\ \E ws \in w.list :
                     da' = [pc |-> "viewers", groups |-> w.groups, cur |-> w.cur,
                            list |-> w.list \ {ws}, closing |-> ws, det |-> det,
                            start |-> Started, snap |-> {}]
                /\ UNCHANGED << upstream_connections, filter_blacklist, watchdog >>

(* ws.close(): closes an open socket, raises (swallowed) on any other *)
Closed(sk, ws) == IF sk[ws] = "open" THEN [sk EXCEPT ![ws] = "closed"] ELSE sk

disconnect_all_start ==
    /\ running = NoTask
    /\ da.pc = "idle"
    /\ \E order \in Orders(DOMAIN client_connections) :
          da_groups(client_connections, order, {})
    /\ UNCHANGED << sock, closeCode, vpc, delivered, errorFrames, running, nb,
                    budget, config_upstream, patterns, forbidden_users, fileVars,
                    dedupVars, now, dq, danmaku_filter, emoji, built >>

(* the awaited close of a viewer completes *)
disconnect_all_viewer_closed ==
    /\ running = NoTask
    /\ da.pc = "viewers"
    /\ sock' = Closed(sock, da.closing)
    /\ IF da.list # {}
       THEN /\ \E ws \in da.list :
                 da' = [da EXCEPT !.closing = ws, !.list = da.list \ {ws}]
            /\ UNCHANGED << client_connections, up, upstream_connections,
                            filter_blacklist, watchdog >>
       ELSE da_groups(Put(client_connections, da.cur, {}), da.groups, da.det)
    /\ UNCHANGED << closeCode, vpc, delivered, errorFrames, running, nb,
                    budget, config_upstream, patterns, forbidden_users, fileVars,
                    dedupVars, now, dq, danmaku_filter, emoji, built >>

(* the awaited close of an upstream completes *)
disconnect_all_upstream_closed ==
    /\ running = NoTask
    /\ da.pc = "upstreams"
    /\ sock' = Closed(sock, da.closing)
    /\ IF da.list # {}
       THEN /\ \E ws \in da.list :
                 da' = [da EXCEPT !.closing = ws, !.list = da.list \ {ws}]
            /\ UNCHANGED << upstream_connections, filter_blacklist, watchdog >>
       ELSE da_finish
    /\ UNCHANGED << client_connections, closeCode, vpc, up, delivered,
                    errorFrames, running, nb, budget, config_upstream, patterns,
                    forbidden_users, fileVars, dedupVars, now, dq, danmaku_filter, emoji, built >>

(* ------------------------------------------------------------------ *)
(* The blacklist files and the observer thread of the watcher           *)
(* ------------------------------------------------------------------ *)
Hi == << "h", "i" >>

Id42 == << "4", "2" >>

Spam == << "s", "p" >>

Bad == << "b", "a", "d" >>

(* the contents an operator gives the patterns file: one pattern; a second
   pattern added; a comment, a line regex.compile rejects, a padded pattern
   and a blank line *)
PatternFiles ==
    { << Spam >>,
      << Spam, Hi >>,
      << << "#", "s" >>, << "(" >>, << " ", "b", "a", "d", " " >>, << " " >> >> }

UserFiles == { << Id42 >>, << >> }

Paths == {"patterns", "users", "other"}

(* a file in the watched directory is written; the observer queues the event *)
file_edit(path, content) ==
    /\ edits < MaxEdits
    /\ edits' = edits + 1
    /\ CASE path = "patterns" ->
              /\ content \in PatternFiles \ {pattern_file}
              /\ pattern_file' = content
              /\ UNCHANGED user_file
         [] path = "users" ->
              /\ content \in UserFiles \ {user_file}
              /\ user_file' = content
              /\ UNCHANGED pattern_file
         [] OTHER ->
              /\ content = << >>
              /\ UNCHANGED << pattern_file, user_file >>
    /\ events' = IF watchdog THEN Append(events, path) ELSE events
    /\ UNCHANGED << cmVars, blVars, wpc, published, dedupVars, now, dq, danmaku_filter, emoji, built >>

(* on_modified with the path test on the users file alone *)
on_modified_users_file_only ==
    /\ wpc = "idle"
    /\ events # << >>
    /\ events' = Tail(events)
    /\ IF Head(events) = "users"
       THEN /\ patterns' = LoadedPatterns(pattern_file)
            /\ wpc' = "load_users"
       ELSE UNCHANGED << patterns, wpc >>
    /\ UNCHANGED << cmVars, filter_blacklist, watchdog, forbidden_users,
                    pattern_file, user_file, edits, published, dedupVars, now, dq, danmaku_filter, emoji, built >>

(* _BlacklistFileHandler.on_modified on the observer thread: the path test,
   then reload up to the end of load_patterns *)
on_modified ==
    /\ wpc = "idle"
    /\ events # << >>
    /\ events' = Tail(events)
    /\ IF Head(events) \in {"patterns", "users"}
       THEN /\ patterns' = LoadedPatterns(pattern_file)
            /\ wpc' = "load_users"
       ELSE UNCHANGED << patterns, wpc >>
    /\ UNCHANGED << cmVars, filter_blacklist, watchdog, forbidden_users,
                    pattern_file, user_file, edits, published, dedupVars, now, dq, danmaku_filter, emoji, built >>

(* the rest of reload: load_users *)
load_users ==
    /\ wpc = "load_users"
    /\ wpc' = "idle"
    /\ forbidden_users' = LoadedUsers(user_file)
    /\ published' = Append(published, [patterns |-> patterns,
                                       users |-> LoadedUsers(user_file)])
    /\ UNCHANGED << cmVars, filter_blacklist, watchdog, patterns, pattern_file,
                    user_file, events, edits, dedupVars, now, dq, danmaku_filter, emoji, built >>

(* time.time() moves on *)
Tick ==
    /\ now < MaxTime
    /\ now' = now + 1
    /\ UNCHANGED << cmVars, blVars, fileVars, dedupVars, dq, danmaku_filter, emoji, built >>

(* ------------------------------------------------------------------ *)
(* DedupQueue                                                           *)
(* ------------------------------------------------------------------ *)
(* DedupQueue._message_key; None is the empty sender *)
MessageKey(m) ==
    IF IsMonetary(m) /\ m.sender # NoStr
    THEN << m.sender, m.text >>
    ELSE << NoStr, m.text >>

(* message.text raises AttributeError on a variant without text *)
KeyRaises(m) == ~HasText(m)

NoLast == [key |-> << NoStr, NoStr >>, ret |-> "none", tier |-> "none", ts |-> 0]

(* DedupQueue.__init__, with the outcome of the last add *)
NewDedupQueue(window, blacklist_window) ==
    [filter_dedup_window |-> window, filter_queue |-> << >>,
     filter_seen |-> {}, blacklist_dedup_window |-> blacklist_window,
     blacklist_queue |-> << >>, blacklist_seen |-> {}, adds |-> 0,
     last |-> NoLast]

(* blacklist_seen is a dict: key -> should_filter, kept as a set of entries *)
SeenKeys(bs) == { e.key : e \in bs }

SeenPut(bs, key, v) == { e \in bs : e.key # key } \cup { [key |-> key, verdict |-> v] }

SeenPop(bs, key) == { e \in bs : e.key # key }

SeenGet(bs, key) == (CHOOSE e \in bs : e.key = key).verdict

(* CleanFilter with the key left in filter_seen *)
RECURSIVE CleanFilter_keep(_, _)
CleanFilter_keep(q, current) ==
    IF q.filter_queue # << >>
       /\ current - Head(q.filter_queue).ts > q.filter_dedup_window
    THEN LET e == Head(q.filter_queue)
         IN  CleanFilter_keep(
                [q EXCEPT !.filter_queue = Tail(@),
                          !.blacklist_queue = Append(@, e),
                          !.blacklist_seen = SeenPut(@, e.key, e.verdict)],
                current)
    ELSE q

(* the first loop of _clean_queue: entries older than the window move to the
   second tier; filter_seen.remove raises KeyError on an absent key *)
RECURSIVE CleanFilter(_, _)
CleanFilter(q, current) ==
    IF q.filter_queue # << >>
       /\ current - Head(q.filter_queue).ts > q.filter_dedup_window
       /\ q.last.ret # "KeyError"
    THEN LET e == Head(q.filter_queue)
         IN  IF e.key \notin q.filter_seen
             THEN [q EXCEPT !.filter_queue = Tail(@), !.last.ret = "KeyError"]
             ELSE CleanFilter(
                    [q EXCEPT !.filter_queue = Tail(@),
                              !.filter_seen = @ \ {e.key},
                              !.blacklist_queue = Append(@, e),
                              !.blacklist_seen = SeenPut(@, e.key, e.verdict)],
                    current)
    ELSE q

(* the second loop of _clean_queue *)
RECURSIVE CleanBlacklist(_, _)
CleanBlacklist(q, current) ==
    IF q.blacklist_queue # << >>
       /\ current - Head(q.blacklist_queue).ts > q.blacklist_dedup_window
    THEN CleanBlacklist(
           [q EXCEPT !.blacklist_queue = Tail(@),
                     !.blacklist_seen = SeenPop(@, Head(q.blacklist_queue).key)],
           current)
    ELSE q

(* DedupQueue._clean_queue at clock reading current *)
CleanQueue(q, current) ==
    LET q1 == CleanFilter([q EXCEPT !.last = NoLast], current)
    IN  IF q1.last.ret = "KeyError" THEN q1 ELSE CleanBlacklist(q1, current)

(* BlacklistService.should_filter as add calls it, in one piece *)
BlacklistVerdict(m) ==
    ForbiddenHit(m, forbidden_users) \/ TextHit(RewriteSender(m, patterns), patterns)

(* add that runs the blacklist check again on a key tier 2 holds *)
Add_recheck(q, m, current, ts) ==
    LET c == CleanQueue(q, current)
        key == MessageKey(m)
        outcome(ret, tier) == [key |-> key, ret |-> ret, tier |-> tier, ts |-> ts]
    IN  IF c.last.ret = "KeyError" THEN c
        ELSE IF KeyRaises(m)
        THEN [c EXCEPT !.last = [NoLast EXCEPT !.ret = "AttributeError"]]
        ELSE IF key \in c.filter_seen
        THEN [c EXCEPT !.last = outcome("blocked", "tier1")]
        ELSE IF key \in SeenKeys(c.blacklist_seen)
        THEN [c EXCEPT !.last =
                 outcome(IF BlacklistVerdict(m) THEN "blocked" ELSE "passed",
                         "tier2")]
        ELSE [c EXCEPT !.filter_queue =
                           Append(@, [key |-> key, ts |-> ts,
                                      verdict |-> BlacklistVerdict(m)]),
                       !.filter_seen = @ \cup {key},
                       !.last = outcome(IF BlacklistVerdict(m) THEN "blocked"
                                        ELSE "passed", "blacklist")]

(* DedupQueue.add(message, blacklist): current is the clock reading of
   _clean_queue, ts the later one of line 389 *)
Add(q, m, current, ts) ==
    LET c == CleanQueue(q, current)
        key == MessageKey(m)
        outcome(ret, tier) == [key |-> key, ret |-> ret, tier |-> tier, ts |-> ts]
    IN  IF c.last.ret = "KeyError" THEN c
        ELSE IF KeyRaises(m)
        THEN [c EXCEPT !.last = [NoLast EXCEPT !.ret = "AttributeError"]]
        ELSE IF key \in c.filter_seen
        THEN [c EXCEPT !.last = outcome("blocked", "tier1")]
        ELSE IF key \in SeenKeys(c.blacklist_seen)
        THEN [c EXCEPT !.last =
                 outcome(IF SeenGet(c.blacklist_seen, key) THEN "blocked" ELSE "passed",
                         "tier2")]
        ELSE [c EXCEPT !.filter_queue =
                           Append(@, [key |-> key, ts |-> ts,
                                      verdict |-> BlacklistVerdict(m)]),
                       !.filter_seen = @ \cup {key},
                       !.last = outcome(IF BlacklistVerdict(m) THEN "blocked"
                                        ELSE "passed", "blacklist")]

(* the message as add leaves it: BlacklistService.should_filter rewrites
   message.sender in place, and add calls it only for a key neither tier
   holds *)
MessageAfterAdd(q, m, current) ==
    LET c == CleanQueue(q, current)
    IN  IF \/ c.last.ret = "KeyError"
           \/ KeyRaises(m)
           \/ MessageKey(m) \in c.filter_seen
           \/ MessageKey(m) \in SeenKeys(c.blacklist_seen)
           \/ ForbiddenHit(m, forbidden_users)
        THEN m
        ELSE RewriteSender(m, patterns)

(* one call of add; the clock may move on between its two readings *)
dq_add(m) ==
    /\ dq.adds < MaxFilterMsgs
    /\ \E ts \in { now, now + 1 } :
          /\ ts <= MaxTime
          /\ now' = ts
          /\ dq' = [Add(dq, m, now, ts) EXCEPT !.adds = dq.adds + 1]
    /\ UNCHANGED << cmVars, blVars, fileVars, dedupVars, danmaku_filter, emoji, built >>

(* ------------------------------------------------------------------ *)
(* EmojiCache: the store, the maintenance loop and load_emoji           *)
(* ------------------------------------------------------------------ *)
TTL_SECONDS == 600

MAX_CACHE_SIZE == 200

PER_USER_LIMIT == 3

GLOBAL_LIMIT == 10

(* await asyncio.sleep(30) of cleanup_loop *)
CLEANUP_SLEEP == 30

EmojiUsers == {"x", "y"}

Calls == 1..MaxCalls

NoUser == "-"

(* the user argument of each call: the last call is the one of another user *)
UserOf(c) == IF c = MaxCalls THEN "y" ELSE "x"

(* the bodies a URL can answer with: two files that hold the same picture,
   an animation, and bytes that are no image *)
Contents == {"png", "png2", "gif", "html"}

NoContent == "-"

(* Image.open and the re-encoding of lines 73-104: the bytes that are no
   image make Image.open raise *)
Decodes(content) == content # "html"

(* content_resized of lines 76-104, the WebP the image is re-encoded as *)
Normalized(content) == IF content = "gif" THEN "webp_animated" ELSE "webp_static"

(* hashlib.md5(content_resized).hexdigest(), the keys numbered after those
   of the entries the store may start with *)
Md5(resized) ==
    IF resized = "webp_static" THEN MAX_CACHE_SIZE + 1 ELSE MAX_CACHE_SIZE + 2

NoKey == 0

(* CacheItem.__init__ at clock reading t *)
CacheItem(key, t) == [key |-> key, expire |-> t + TTL_SECONDS, last_access |-> t]

(* the position of key in the store (a dict, in insertion order), or 0 *)
StoreIndex(store, key) ==
    LET at == { i \in 1..Len(store) : store[i].key = key }
    IN  IF at = {} THEN 0 ELSE CHOOSE i \in at : TRUE

StoreKeys(store) == { store[i].key : i \in 1..Len(store) }

(* del self.store[key] *)
StoreDel(store, keys) == SelectSeq(store, LAMBDA e : e.key \notin keys)

(* get that takes an entry for expired at the very time of its expiry *)
CacheGet_early(store, key, t) ==
    LET i == StoreIndex(store, key)
    IN  IF i = 0 THEN [store |-> store, hit |-> FALSE]
        ELSE IF store[i].expire <= t
        THEN [store |-> StoreDel(store, {key}), hit |-> FALSE]
        ELSE [store |-> [store EXCEPT ![i].last_access = t,
                                      ![i].expire = t + TTL_SECONDS],
              hit |-> TRUE]

(* EmojiCache.get at clock reading t: the store it leaves and whether it
   returns the item *)
CacheGet(store, key, t) ==
    LET i == StoreIndex(store, key)
    IN  IF i = 0 THEN [store |-> store, hit |-> FALSE]
        ELSE IF store[i].expire < t
        THEN [store |-> StoreDel(store, {key}), hit |-> FALSE]
        ELSE [store |-> [store EXCEPT ![i].last_access = t,
                                      ![i].expire = t + TTL_SECONDS],
              hit |-> TRUE]

(* EmojiCache.set at clock reading t: a key the dict holds keeps its place *)
CacheSet(store, key, t) ==
    LET i == StoreIndex(store, key)
    IN  IF i = 0 THEN Append(store, CacheItem(key, t))
        ELSE [store EXCEPT ![i] = CacheItem(key, t)]

(* lines 53-58: the TTL pass of cleanup_loop *)
ExpiredKeys(store, t) ==
    { store[i].key : i \in { j \in 1..Len(store) : store[j].expire < t } }

(* the keys of the n entries accessed last *)
RECURSIVE LruKeys_recent(_, _)
LruKeys_recent(store, n) ==
    IF n <= 0 \/ store = << >> THEN {}
    ELSE LET i == CHOOSE i \in 1..Len(store) : \A j \in 1..Len(store) :
                      \/ store[i].last_access > store[j].last_access
                      \/ store[i].last_access = store[j].last_access /\ i <= j
         IN  {store[i].key} \cup LruKeys_recent(StoreDel(store, {store[i].key}), n - 1)

(* lines 62-66: the keys of sorted_items[:n], the store sorted by
   last_access (a stable sort: ties stay in insertion order), taken one by
   one from the front of that order *)
RECURSIVE LruKeys(_, _)
LruKeys(store, n) ==
    IF n <= 0 \/ store = << >> THEN {}
    ELSE LET i == CHOOSE i \in 1..Len(store) : \A j \in 1..Len(store) :
                      \/ store[i].last_access < store[j].last_access
                      \/ store[i].last_access = store[j].last_access /\ i <= j
         IN  {store[i].key} \cup LruKeys(StoreDel(store, {store[i].key}), n - 1)

(* one pass of the loop of cleanup_loop at clock reading t *)
CleanupPass(store, t) ==
    LET live == StoreDel(store, ExpiredKeys(store, t))
    IN  IF Len(live) > MAX_CACHE_SIZE
        THEN StoreDel(live, LruKeys(live, Len(live) - MAX_CACHE_SIZE))
        ELSE live

(* import_emoji_sync without its insert *)
import_emoji_sync_unset(store, content, t) ==
    [store |-> CacheGet(store, Md5(Normalized(content)), t).store,
     ret |-> "key", key |-> Md5(Normalized(content)), path |-> "get"]

(* import_emoji_sync that inserts whatever the store holds *)
import_emoji_sync_again(store, content, t) ==
    [store |-> Append(store, CacheItem(Md5(Normalized(content)), t)),
     ret |-> "key", key |-> Md5(Normalized(content)), path |-> "set"]

(* import_emoji_sync at clock reading t: it raises on bytes that are no
   image, returns the key of an entry that get finds (path get), and
   inserts otherwise (path set) *)
import_emoji_sync(store, content, t) ==
    IF ~Decodes(content)
    THEN [store |-> store, ret |-> "raised", key |-> NoKey, path |-> "-"]
    ELSE LET key == Md5(Normalized(content))
             got == CacheGet(store, key, t)
         IN  IF got.hit
             THEN [store |-> got.store, ret |-> "key", key |-> key, path |-> "get"]
             ELSE [store |-> CacheSet(got.store, key, t), ret |-> "key",
                   key |-> key, path |-> "set"]

(* what client.get(url) ends with: a response, or an exception *)
Response(status, content) == [status |-> status, content |-> content]

Responses ==
    { Response("200", content) : content \in Contents }
        \cup { Response("404", NoContent), Response("raises", NoContent) }

GateResponses ==
    { Response("200", "png"), Response("200", "html"),
      Response("404", NoContent), Response("raises", NoContent) }

(* lines 122-134 once client.get has ended, at clock reading t: None for
   another status and for an exception of the download; import_emoji_sync
   is called after the try statement, what it raises leaves load_emoji *)
LoadResult(store, r, t) ==
    IF r.status # "200"
    THEN [store |-> store, ret |-> "null", key |-> NoKey, path |-> "-"]
    ELSE import_emoji_sync(store, r.content, t)

(* asyncio.Semaphore(value) *)
Semaphore(value) == [value |-> value, waiters |-> << >>]

(* Semaphore.locked() *)
Locked(sem) == sem.value = 0 \/ sem.waiters # << >>

(* an operation that has ended: what it returned, the key it was given or
   returned, and for load_emoji the bytes downloaded and the path taken
   through import_emoji_sync *)
Ended(op, ret, key, content, path) ==
    [op |-> op, ret |-> ret, key |-> key, content |-> content, path |-> path]

NoOp == Ended("none", "none", NoKey, NoContent, "-")

(* the store with n entries made at time 0 *)
Prefilled(n) == [i \in 1..n |-> CacheItem(i, 0)]

(* EmojiCache.__init__, and the load_emoji calls before they are made:
   pc is idle, wait_global, got_global, wait_user, download or done; wake
   is the time the sleep of cleanup_loop ends, slept counts the steps of
   the clock, last is the operation that ended last *)
NewEmojiCache ==
    [store |-> << >>,
     global_sem |-> Semaphore(GLOBAL_LIMIT),
     user_sems |-> [u \in {} |-> Semaphore(PER_USER_LIMIT)],
     pc |-> [c \in Calls |-> "idle"],
     user |-> [c \in Calls |-> NoUser],
     wake |-> 0,
     slept |-> 0,
     last |-> NoOp]

(* lines 117-119: the semaphore of the user, made on the user's first call *)
UserSem(e, user) ==
    IF user \in DOMAIN e.user_sems THEN e.user_sems[user]
    ELSE Semaphore(PER_USER_LIMIT)

WithUserSem(e, user, sem) ==
    [e EXCEPT !.user_sems =
        [u \in DOMAIN e.user_sems \cup {user} |->
            IF u = user THEN sem ELSE e.user_sems[u]]]

(* the calls that hold a slot of the global semaphore *)
HoldsGlobal(e) == { c \in Calls : e.pc[c] \in {"got_global", "wait_user", "download"} }

(* acquire of the user's semaphore that takes a slot another call holds *)
AcquireUser_unlimited(e, c) ==
    [WithUserSem(e, e.user[c], UserSem(e, e.user[c])) EXCEPT !.pc[c] = "download"]

(* await user_sem.acquire() by a call that holds a global slot: it goes on
   to the download, or waits with the global slot in hand *)
AcquireUser(e, c) ==
    LET sem == UserSem(e, e.user[c])
    IN  IF ~Locked(sem)
        THEN [WithUserSem(e, e.user[c], [sem EXCEPT !.value = @ - 1])
                 EXCEPT !.pc[c] = "download"]
        ELSE [WithUserSem(e, e.user[c], [sem EXCEPT !.waiters = Append(@, c)])
                 EXCEPT !.pc[c] = "wait_user"]

(* await self.global_sem.acquire(), the first of the two of line 121 *)
AcquireGlobal(e, c) ==
    IF ~Locked(e.global_sem)
    THEN AcquireUser([e EXCEPT !.global_sem.value = @ - 1], c)
    ELSE [e EXCEPT !.global_sem.waiters = Append(@, c), !.pc[c] = "wait_global"]

(* Semaphore.release() of the user's semaphore: the slot goes to the first
   waiter, which goes on to the download *)
ReleaseUser(e, user) ==
    LET sem == e.user_sems[user]
    IN  IF sem.waiters = << >>
        THEN WithUserSem(e, user, [sem EXCEPT !.value = @ + 1])
        ELSE [WithUserSem(e, user, [sem EXCEPT !.waiters = Tail(@)])
                 EXCEPT !.pc[Head(sem.waiters)] = "download"]

(* Semaphore.release() of the global semaphore: the slot goes to the first
   waiter, which is woken *)
ReleaseGlobal(e) ==
    IF e.global_sem.waiters = << >>
    THEN [e EXCEPT !.global_sem.value = @ + 1]
    ELSE [e EXCEPT !.global_sem.waiters = Tail(@),
                   !.pc[Head(e.global_sem.waiters)] = "got_global"]

(* a call of load_emoji(url, user) up to its first suspension; the calls of
   one user are numbered in the order they are made *)
load_emoji(c, user) ==
    /\ emoji.pc[c] = "idle"
    /\ user = UserOf(c)
    /\ \A d \in Calls : (d < c /\ UserOf(d) = user) => emoji.pc[d] # "idle"
    /\ emoji' = AcquireGlobal(
                    WithUserSem([emoji EXCEPT !.user[c] = user], user,
                                UserSem(emoji, user)), c)
    /\ UNCHANGED << cmVars, blVars, fileVars, dedupVars, now, dq, danmaku_filter, built >>

(* a call woken with a global slot goes on to the user's semaphore *)
load_emoji_resumed(c) ==
    /\ emoji.pc[c] = "got_global"
    /\ emoji' = AcquireUser(emoji, c)
    /\ UNCHANGED << cmVars, blVars, fileVars, dedupVars, now, dq, danmaku_filter, built >>

(* client.get ends with r and the call runs to its end, by a return or by
   the exception of import_emoji_sync: the async with releases the user's
   slot, then the global one *)
load_emoji_done(c, r) ==
    /\ emoji.pc[c] = "download"
    /\ LET res == LoadResult(emoji.store, r, now)
       IN  emoji' = ReleaseGlobal(ReleaseUser(
                        [emoji EXCEPT !.pc[c] = "done",
                                      !.store = res.store,
                                      !.last = Ended("load_emoji", res.ret,
                                                     res.key, r.content,
                                                     res.path)],
                        emoji.user[c]))
    /\ UNCHANGED << cmVars, blVars, fileVars, dedupVars, now, dq, danmaku_filter, built >>

(* GET /emoji/{key}: cache.get(key), 404 on a miss *)
get_emoji(key) ==
    /\ LET got == CacheGet(emoji.store, key, now)
       IN  emoji' = [emoji EXCEPT !.store = got.store,
                                  !.last = Ended("get_emoji",
                                                 IF got.hit THEN "item" ELSE "404",
                                                 key, NoContent, "-")]
    /\ UNCHANGED << cmVars, blVars, fileVars, dedupVars, now, dq, danmaku_filter, built >>

(* the key asked for: the one of an image *)
RouteKeys == { Md5("webp_static") }

(* one pass of cleanup_loop, made when its sleep has ended *)
cleanup_loop ==
    /\ now >= emoji.wake
    /\ emoji' = [emoji EXCEPT !.store = CleanupPass(emoji.store, now),
                              !.wake = now + CLEANUP_SLEEP,
                              !.last = Ended("cleanup_loop", "none", NoKey,
                                             NoContent, "-")]
    /\ UNCHANGED << cmVars, blVars, fileVars, dedupVars, now, dq, danmaku_filter, built >>

(* the clock of time.time() moves on by d seconds *)
Sleeps == { CLEANUP_SLEEP, TTL_SECONDS - CLEANUP_SLEEP }

emoji_clock(d) ==
    /\ emoji.slept < MaxSleeps
    /\ now' = now + d
    /\ emoji' = [emoji EXCEPT !.slept = @ + 1]
    /\ UNCHANGED << cmVars, blVars, fileVars, dedupVars, dq, danmaku_filter, built >>

(* ------------------------------------------------------------------ *)
(* DanmakuBuilder.create for plain text, and parse_command              *)
(* ------------------------------------------------------------------ *)
(* the characters of the directives: "ZHI" "DING" is the word for top,
   "ZHI" "DI" the word for bottom *)
Top == << "/", "ZHI", "DING" >>

Bottom == << "/", "ZHI", "DI" >>

Red6 == << "#", "f", "f", "0", "0", "0", "0" >>

Red3 == << "#", "f", "0", "0" >>

Sp == << " " >>

Hello == << "h", "e", "l", "l", "o" >>

Pieces == { Top, Bottom, Red6, Red3, Sp, Hello }

RECURSIVE Concat(_)
Concat(ps) == IF ps = << >> THEN << >> ELSE Head(ps) \o Concat(Tail(ps))

(* the texts of the Text elements of a message, put together from pieces *)
Texts ==
    { Concat(ps) : ps \in UNION { [1..n -> Pieces] : n \in 0..MaxPieces } }

IsHex(ch) ==
    ch \in { "0", "1", "2", "3", "4", "5", "6", "7", "8", "9",
             "a", "b", "c", "d", "e", "f", "A", "B", "C", "D", "E", "F" }

(* \s+ from position i, which holds whitespace: the last position of the run *)
RECURSIVE SpacesEnd(_, _)
SpacesEnd(s, i) ==
    IF i < Len(s) /\ IsSpace(s[i + 1]) THEN SpacesEnd(s, i + 1) ELSE i

(* POSITION_RE matched at position i: the last position of the match, or 0 *)
POSITION_RE(s, i) ==
    IF /\ i + 3 <= Len(s)
       /\ s[i] = "/"
       /\ s[i + 1] = "ZHI"
       /\ s[i + 2] \in { "DING", "DI" }
       /\ IsSpace(s[i + 3])
    THEN SpacesEnd(s, i + 3)
    ELSE 0

(* COLOR_RE matched at position i: six hexadecimal digits, or three, and
   the whitespace after them; the last position of the match, or 0 *)
COLOR_RE(s, i) ==
    IF i + 3 <= Len(s) /\ s[i] = "#" /\ \A k \in 1..3 : IsHex(s[i + k])
    THEN IF /\ i + 7 <= Len(s)
            /\ \A k \in 4..6 : IsHex(s[i + k])
            /\ IsSpace(s[i + 7])
         THEN SpacesEnd(s, i + 7)
         ELSE IF i + 4 <= Len(s) /\ IsSpace(s[i + 4])
              THEN SpacesEnd(s, i + 4)
              ELSE 0
    ELSE 0

(* re.finditer from position i: the matches from left to right, none of
   them overlapping *)
ReAt(kind, s, i) ==
    IF kind = "position" THEN POSITION_RE(s, i) ELSE COLOR_RE(s, i)

RECURSIVE FindIter(_, _, _)
FindIter(kind, s, i) ==
    IF i > Len(s) THEN << >>
    ELSE IF ReAt(kind, s, i) # 0
         THEN << [kind |-> kind, start |-> i, end |-> ReAt(kind, s, i),
                  group |-> SubSeq(s, i, ReAt(kind, s, i))] >>
                  \o FindIter(kind, s, ReAt(kind, s, i) + 1)
         ELSE FindIter(kind, s, i + 1)

StartsWith(s, prefix) ==
    Len(prefix) <= Len(s) /\ SubSeq(s, 1, Len(prefix)) = prefix

EndsWith(s, suffix) ==
    Len(suffix) <= Len(s) /\ SubSeq(s, Len(s) - Len(suffix) + 1, Len(s)) = suffix

NoColor == << "None" >>

(* the group of the last token of a kind, none when there is no token *)
LastGroup(tokens, kind) ==
    LET of == SelectSeq(tokens, LAMBDA t : t.kind = kind)
    IN  IF of = << >> THEN NoStr ELSE of[Len(of)].group

(* what parse_command returns: None, the text alone, or position, colour
   and text *)
ParsedNone == [keys |-> "None", position |-> "-", color |-> NoColor, text |-> NoStr]

(* parse_command(raw) *)
parse_command(raw) ==
    LET tokens == FindIter("position", raw, 1)
                      \o FindIter("color", raw, 1)
        idx == 1..Len(tokens)
        start == CHOOSE a \in { tokens[i].start : i \in idx } :
                     \A i \in idx : a <= tokens[i].start
        end == CHOOSE b \in { tokens[i].end : i \in idx } :
                   \A i \in idx : b >= tokens[i].end
        block == SubSeq(raw, start, end)
        stripped == Strip(raw)
        word == Strip(Tail(LastGroup(tokens, "position")))
        position == IF LastGroup(tokens, "position") = NoStr THEN "rtl"
                    ELSE IF word = << "ZHI", "DING" >> THEN "top"
                    ELSE IF word = << "ZHI", "DI" >> THEN "bottom"
                    ELSE "other"
        color == IF LastGroup(tokens, "color") = NoStr THEN NoColor
                 ELSE Strip(LastGroup(tokens, "color"))
    IN  IF tokens = << >>
        THEN [keys |-> "text", position |-> "-", color |-> NoColor, text |-> raw]
        ELSE IF StartsWith(stripped, block)
        THEN [keys |-> "all", position |-> position, color |-> color,
              text |-> SubSeq(raw, end + 1, Len(raw))]
        ELSE IF EndsWith(stripped, block)
        THEN [keys |-> "all", position |-> position, color |-> color,
              text |-> SubSeq(raw, 1, start - 1)]
        ELSE ParsedNone

(* PlainDanmakuMessage made of the keys of constructed: the fields left out take their
   defaults, and a position outside the Literal fails validation *)
PlainDanmakuMessage(constructed) ==
    IF constructed.keys = "text"
    THEN [type |-> "plain", text |-> constructed.text, position |-> "scroll",
          color |-> NoColor]
    ELSE IF constructed.position \in { "top", "bottom", "scroll" }
    THEN [type |-> "plain", text |-> constructed.text,
          position |-> constructed.position, color |-> constructed.color]
    ELSE [type |-> "ValidationError", text |-> NoStr, position |-> "-",
          color |-> NoColor]

(* lines 49-60: create for elements that classify as plain *)
CreatePlain(elements) ==
    LET text == Strip(elements)
        constructed == parse_command(text)
    IN  IF constructed = ParsedNone
        THEN PlainDanmakuMessage([keys |-> "text", position |-> "-",
                                  color |-> NoColor, text |-> text])
        ELSE PlainDanmakuMessage(constructed)

NotBuilt == [type |-> "none", text |-> NoStr, position |-> "-", color |-> NoColor]

(* DanmakuBuilder.create called with the text of a message *)
create ==
    /\ built.result = NotBuilt
    /\ built' = [built EXCEPT !.result = CreatePlain(built.elements)]
    /\ UNCHANGED << cmVars, blVars, fileVars, dedupVars, now, dq, danmaku_filter, emoji >>

(* ------------------------------------------------------------------ *)
(* The packets the peers send, and the initial state                    *)
(* ------------------------------------------------------------------ *)
PlainHi == Msg("plain", Hi, NoStr, NoStr)

PlainFrom42 == Msg("plain", Hi, NoStr, Id42)

PlainSpam == Msg("plain", << "S", "p" >>, NoStr, NoStr)

SuperchatHi == Msg("superchat", Hi, << "B", "a", "d", "x" >>, << "7" >>)

GiftBad == Msg("gift", NoStr, Bad, << "7" >>)

GiftHi == Msg("gift", NoStr, Hi, << "7" >>)

(* a superchat and two plain messages with the text of SuperchatHi and
   sender names of their own *)
SuperchatAnn == Msg("superchat", Hi, << "A", "n", "n" >>, << "8" >>)

PlainAnn == Msg("plain", Hi, << "A", "n", "n" >>, << "8" >>)

PlainBob == Msg("plain", Hi, << "B", "o", "b" >>, << "9" >>)

(* an EmoteMessage: no text field *)
EmoteHi == Msg("emote", NoStr, Hi, << "7" >>)

Danmaku(g, m) == [group |-> g, kind |-> "danmaku", msg |-> m]

Control(g) == [group |-> g, kind |-> "control", msg |-> NoMsg]

(* ConnectionManager.__init__ and the sessions before they connect *)
InitManager ==
    /\ client_connections = [g \in {} |-> {}]
    /\ upstream_connections = {}
    /\ sock = [s \in Sessions |-> "connecting"]
    /\ closeCode = [s \in Sessions |-> 0]
    /\ vpc = [v \in Viewers |-> "new"]
    /\ up = [u \in Upstreams |-> IdleTask]
    /\ delivered = [s \in Sessions |-> << >>]
    /\ errorFrames = [u \in Upstreams |-> << >>]
    /\ running = NoTask
    /\ da = DaIdle
    /\ nb = 0

(* the manager, the emoji cache as constructed, and no message to build *)
InitRegistry ==
    /\ InitManager
    /\ emoji = NewEmojiCache
    /\ built = [elements |-> NoStr, result |-> NotBuilt]

(* startup_danmaku: blacklist.reload, then the watcher is started *)
InitBlacklist(pfile, ufile) ==
    /\ pattern_file = pfile
    /\ user_file = ufile
    /\ patterns = LoadedPatterns(pfile)
    /\ forbidden_users = LoadedUsers(ufile)
    /\ published = << [patterns |-> LoadedPatterns(pfile),
                       users |-> LoadedUsers(ufile)] >>
    /\ filter_blacklist = TRUE
    /\ watchdog = TRUE
    /\ events = << >>
    /\ wpc = "idle"
    /\ edits = 0

(* DanmakuFilter.__init__, and the manager given that filter *)
InitFilter(windows) ==
    /\ danmaku_filter = "DanmakuFilter"
    /\ dedup_window \in windows
    /\ recent_messages = [g \in Channels |-> << >>]
    /\ now = 0

Init ==
    /\ InitRegistry
    /\ budget = MaxBroadcasts
    /\ config_upstream \in Configs
    /\ InitBlacklist(<< Spam >>, << Id42 >>)
    /\ InitFilter({0})
    /\ dq = NewDedupQueue(0, MaxWindow)

InitDedup ==
    /\ InitRegistry
    /\ budget = MaxFilterMsgs
    /\ config_upstream = [present |-> TRUE, token |-> << "s" >>]
    /\ InitBlacklist(<< Spam >>, << Id42 >>)
    /\ InitFilter({0, MaxWindow})
    /\ dq = NewDedupQueue(0, MaxWindow)

InitReload ==
    /\ InitRegistry
    /\ budget = MaxReloadMsgs
    /\ config_upstream = [present |-> TRUE, token |-> << "s" >>]
    /\ InitBlacklist(<< Spam >>, << Id42 >>)
    /\ InitFilter({0})
    /\ dq = NewDedupQueue(0, MaxWindow)

InitPackets ==
    /\ InitRegistry
    /\ budget = MaxReloadMsgs
    /\ config_upstream = [present |-> TRUE, token |-> << "s" >>]
    /\ InitBlacklist(<< Spam >>, << Id42 >>)
    /\ danmaku_filter \in {"DanmakuFilter", "raises"}
    /\ dedup_window = 0
    /\ recent_messages = [g \in Channels |-> << >>]
    /\ now = 0
    /\ dq = NewDedupQueue(0, MaxWindow)

InitDedupQueue ==
    /\ InitRegistry
    /\ budget = 0
    /\ config_upstream = [present |-> FALSE, token |-> NoStr]
    /\ InitBlacklist(<< Spam >>, << Id42 >>)
    /\ InitFilter({0})
    /\ \E w \in { -1, 0, MaxWindow - 1 } : dq = NewDedupQueue(w, MaxWindow)

InitEmoji ==
    /\ InitRegistry
    /\ budget = 0
    /\ config_upstream = [present |-> FALSE, token |-> NoStr]
    /\ InitBlacklist(<< Spam >>, << Id42 >>)
    /\ InitFilter({0})
    /\ dq = NewDedupQueue(0, MaxWindow)

(* the manager with a filter that remembers the messages of a window *)
InitShutdownDedup ==
    /\ InitRegistry
    /\ budget = MaxBroadcasts
    /\ config_upstream = [present |-> TRUE, token |-> << "s" >>]
    /\ InitBlacklist(<< Spam >>, << Id42 >>)
    /\ InitFilter({MaxWindow})
    /\ dq = NewDedupQueue(0, MaxWindow)

(* the cache as constructed, or as full as cleanup_loop leaves it *)
InitEmojiStore ==
    /\ InitManager
    /\ \E n \in { 0, MAX_CACHE_SIZE } :
          emoji = [NewEmojiCache EXCEPT !.store = Prefilled(n)]
    /\ built = [elements |-> NoStr, result |-> NotBuilt]
    /\ budget = 0
    /\ config_upstream = [present |-> FALSE, token |-> NoStr]
    /\ InitBlacklist(<< Spam >>, << Id42 >>)
    /\ InitFilter({0})
    /\ dq = NewDedupQueue(0, MaxWindow)

(* a message whose Text elements hold any of the texts *)
InitBuilder ==
    /\ InitManager
    /\ emoji = NewEmojiCache
    /\ \E text \in Texts : built = [elements |-> text, result |-> NotBuilt]
    /\ budget = 0
    /\ config_upstream = [present |-> FALSE, token |-> NoStr]
    /\ InitBlacklist(<< Spam >>, << Id42 >>)
    /\ InitFilter({0})
    /\ dq = NewDedupQueue(0, MaxWindow)

(* ------------------------------------------------------------------ *)
(* Specifications                                                       *)
(* ------------------------------------------------------------------ *)
(* the steps of the handlers, for the viewers that connect and the tokens
   and packets the peers send *)
Handlers(viewers, tokens, packets) ==
    \/ \E v \in viewers : connect_client(v)
    \/ \E v \in viewers : client_websocket_disconnect(v)
    \/ \E s \in Sessions : peer_drop(s)
    \/ \E u \in Upstreams, token \in tokens : upstream_connect(u, token)
    \/ \E u \in Upstreams, pkt \in packets : upstream_receive(u, pkt)
    \/ \E u \in Upstreams : should_filter_name(u)
    \/ \E u \in Upstreams : should_filter_text(u)
    \/ \E u \in Upstreams : broadcast_send_done(u)
    \/ \E u \in Upstreams : upstream_error_sent(u)
    \/ \E u \in Upstreams : upstream_error_send_fails(u)
    \/ \E u \in Upstreams : upstream_disconnect(u)

(* ConnectionManager.disconnect_all, step by awaited step *)
Shutdown ==
    \/ disconnect_all_start
    \/ disconnect_all_viewer_closed
    \/ disconnect_all_upstream_closed

(* the observer thread and the operator editing the files *)
Watcher ==
    \/ \E path \in Paths, content \in PatternFiles \cup UserFiles :
          file_edit(path, content)
    \/ on_modified
    \/ load_users

FanoutPackets == { Danmaku("a", PlainHi), Danmaku("b", PlainHi), Control("a") }

ShutdownPackets == { Danmaku("a", PlainFrom42), Danmaku("a", PlainHi) }

DedupPackets == { Danmaku("a", m) : m \in { PlainHi, PlainSpam, SuperchatHi } }

ReloadPackets ==
    { Danmaku("a", m) : m \in { PlainHi, PlainFrom42, PlainSpam, SuperchatHi, GiftBad } }

DedupQueueMessages == { PlainHi, PlainSpam, SuperchatHi, GiftBad }

(* the frames an upstream sends: text that is no packet, a packet with no
   payload, one with both, a control, a plain message and a gift *)
UpstreamFrames ==
    { [group |-> "a", kind |-> "malformed", msg |-> NoMsg],
      [group |-> "a", kind |-> "neither", msg |-> NoMsg],
      [group |-> "a", kind |-> "both", msg |-> PlainHi],
      Control("a"),
      Danmaku("a", PlainHi),
      Danmaku("a", GiftHi) }

(* viewers and upstreams coming and going while packets are fanned out *)
Next == Handlers(Viewers, { NoStr, << "s" >> }, FanoutPackets)

(* the same with the manager shut down at any moment *)
NextShutdown == Handlers(Viewers, { << "s" >> }, ShutdownPackets) \/ Shutdown

(* connections to /upstream with every kind of token *)
NextAuth == Handlers(Viewers, Tokens, { Danmaku("a", PlainHi) })

(* one viewer, the filter at work while time passes *)
NextDedup == Handlers({1}, { << "s" >> }, DedupPackets) \/ Tick

(* one viewer, the filter at work while the blacklist files change *)
NextReload == Handlers({1}, { << "s" >> }, ReloadPackets) \/ Watcher

(* a DedupQueue fed messages while the blacklist is reloaded and time passes *)
NextDedupQueue ==
    \/ \E m \in DedupQueueMessages : dq_add(m)
    \/ Watcher
    \/ Tick

(* two viewers of one channel, frames of every shape from the upstream, with
   either filter *)
NextPackets == Handlers({1, 3}, { << "s" >> }, UpstreamFrames)

(* load_emoji called for two users *)
NextEmoji ==
    \/ \E c \in Calls, user \in EmojiUsers : load_emoji(c, user)
    \/ \E c \in Calls : load_emoji_resumed(c)
    \/ \E c \in Calls, r \in GateResponses : load_emoji_done(c, r)

(* the calls of the store's specification: one of each user *)
StoreCalls == { 1, MaxCalls }

(* load_emoji, GET /emoji/{key} and cleanup_loop while time passes *)
NextEmojiStore ==
    \/ \E c \in StoreCalls, user \in EmojiUsers : load_emoji(c, user)
    \/ \E c \in StoreCalls, r \in Responses : load_emoji_done(c, r)
    \/ \E key \in RouteKeys : get_emoji(key)
    \/ cleanup_loop
    \/ \E d \in Sleeps : emoji_clock(d)

(* a DedupQueue fed two plain messages while a pattern is added to the
   blacklist and time passes *)
NextTiers ==
    \/ \E m \in { PlainHi, PlainSpam } : dq_add(m)
    \/ file_edit("patterns", << Spam, Hi >>)
    \/ on_modified
    \/ load_users
    \/ Tick

(* create called once on the text *)
NextBuilder == create

SenderMessages == { SuperchatHi, SuperchatAnn, PlainAnn, PlainBob }

(* the packets of these messages, and of a gift *)
SenderPackets == { Danmaku("a", m) : m \in SenderMessages \cup { GiftHi } }

(* the manager with a filter whose window is open, and a DedupQueue *)
InitSenders ==
    /\ InitRegistry
    /\ budget = MaxFilterMsgs
    /\ config_upstream = [present |-> TRUE, token |-> << "s" >>]
    /\ InitBlacklist(<< Spam >>, << Id42 >>)
    /\ InitFilter({MaxWindow})
    /\ dq = NewDedupQueue(0, MaxWindow)

(* one viewer, messages of one text from several senders *)
NextSenders == Handlers({1}, { << "s" >> }, SenderPackets) \/ Tick

(* a DedupQueue fed the messages of one text from several senders *)
NextSenderKeys ==
    \/ \E m \in SenderMessages : dq_add(m)
    \/ Tick

NoTextMessages == { EmoteHi, GiftHi }

(* a DedupQueue fed a plain message, an emote and a gift while time passes *)
NextNoText ==
    \/ \E m \in NoTextMessages \cup { PlainHi } : dq_add(m)
    \/ Tick

Spec == Init /\ [][Next]_vars

SpecShutdown == Init /\ [][NextShutdown]_vars

SpecAuth == Init /\ [][NextAuth]_vars

SpecDedup == InitDedup /\ [][NextDedup]_vars

SpecReload == InitReload /\ [][NextReload]_vars

SpecDedupQueue == InitDedupQueue /\ [][NextDedupQueue]_vars

SpecPackets == InitPackets /\ [][NextPackets]_vars

SpecEmoji == InitEmoji /\ [][NextEmoji]_vars

SpecShutdownDedup == InitShutdownDedup /\ [][NextShutdown]_vars

SpecTiers == InitDedupQueue /\ [][NextTiers]_vars

SpecEmojiStore == InitEmojiStore /\ [][NextEmojiStore]_vars

SpecBuilder == InitBuilder /\ [][NextBuilder]_vars

SpecSenders == InitSenders /\ [][NextSenders]_vars

SpecSenderKeys == InitDedupQueue /\ [][NextSenderKeys]_vars

SpecNoText == InitDedupQueue /\ [][NextNoText]_vars

(* ------------------------------------------------------------------ *)
(* Properties                                                           *)
(* ------------------------------------------------------------------ *)
(* the sessions whose send has raised once the send in flight completes *)
FailedWith(t) == t.failed \cup (IF SendRaises(t.cur) THEN {t.cur} ELSE {})

(* the fan-out of task u ends with this step *)
FanOutEnds(u) == up[u].pc = "sending" /\ up'[u].pc # "sending"

(* session s has been sent the frame of packet id *)
Got(log, s, id) == \E i \in 1..Len(log[s]) : log[s][i].id = id

(* C1: when the fan-out of a message that passed the filter ends, every
   viewer that was registered on the channel when it started has been sent
   the message, or its send has failed or is bound to fail (its socket is
   no longer open), or it has left the registry, whatever connected or
   disconnected while the fan-out was suspended in a send *)
C1_EveryViewerSentOrRemoved ==
    [][\A u \in Upstreams :
          (FanOutEnds(u) /\ up[u].kind = "danmaku")
              => \A w \in up[u].startSet :
                    \/ Got(delivered', w, up[u].id)
                    \/ sock'[w] # "open"
                    \/ w \notin Get(client_connections', up[u].grp)]_vars

(* C2: when a send has raised for one viewer during the fan-out of a
   message or of a control, the send is still attempted on every other
   viewer of the channel and the broadcast returns normally *)
C2_FailedSendDoesNotStopFanOut ==
    [][\A u \in Upstreams :
          (FanOutEnds(u) /\ FailedWith(up[u]) # {})
              => /\ up'[u].result = "returned"
                 /\ up[u].startSet \subseteq up[u].tried \cup {up[u].cur}]_vars

(* C3: a frame broadcast on channel c is only ever sent to viewer sessions
   of c, never to a viewer of another channel or to an upstream *)
C3_OnlyViewersOfTheChannel ==
    /\ \A s \in Sessions : \A i \in 1..Len(delivered[s]) :
          s \in Viewers /\ GroupOf(s) = delivered[s][i].group
    /\ \A u \in Upstreams :
          up[u].pc = "sending"
              => up[u].cur \in Viewers /\ GroupOf(up[u].cur) = up[u].grp

(* both viewers of "a" have been sent a frame while a viewer of "b" and the
   upstream are registered and have been sent nothing *)
C3_Witness ==
    /\ delivered[1] # << >>
    /\ delivered[3] # << >>
    /\ 2 \in Get(client_connections, "b")
    /\ sock[2] = "open"
    /\ delivered[2] = << >>
    /\ Upstreams \subseteq upstream_connections

(* C4: no message whose sender id is in the loaded forbidden set or whose
   text matches a loaded pattern is ever delivered to a viewer, in any
   reachable state of the manager and its filter (the files do not change
   here, so the loaded state is the same at every moment) *)
C4_NoBlacklistedMessageDelivered ==
    \A s \in Sessions : \A i \in 1..Len(delivered[s]) :
        delivered[s][i].kind = "danmaku"
            => /\ ~ForbiddenHit(delivered[s][i].msg, forbidden_users)
               /\ ~TextHit(delivered[s][i].msg, patterns)

(* the reads a decision has made once its text part has run *)
AllReads(t) ==
    IF ReadsText(t.msg) THEN Append(t.reads, PatternsRead(patterns)) ELSE t.reads

ReadFrom(reads, pair) ==
    \A k \in 1..Len(reads) :
        IF reads[k].what = "users" THEN reads[k].users = pair.users
        ELSE reads[k].patterns = pair.patterns

(* the pairs a decision that started after `from` complete reloads may have
   seen: those reloads left since, and the one a reload in flight will leave *)
PairsSince(from) ==
    { published[i] : i \in from..Len(published) }
        \cup (IF wpc = "load_users"
              THEN { [patterns |-> patterns, users |-> LoadedUsers(f)] : f \in UserFiles }
              ELSE {})

(* C5: every read a blacklist decision makes comes from one and the same
   (pattern list, forbidden-id set) pair, the one loaded before a concurrent
   reload or the one loaded after it *)
C5_DecisionReadsOnePair ==
    [][\A u \in Upstreams :
          (up[u].pc = "bl_text" /\ up'[u].pc # "bl_text")
              => \E pair \in PairsSince(up[u].from) :
                    ReadFrom(AllReads(up[u]), pair)]_vars

(* the frames of the messages that passed the filter *)
PassedFrames ==
    UNION { { delivered[s][i] : i \in 1..Len(delivered[s]) } : s \in Sessions }
        \cup { Frame(up[u]) : u \in { x \in Upstreams : up[x].pc = "sending" } }

Apart(a, b) == IF a >= b THEN a - b ELSE b - a

(* C6: with dedup on, two different plain or superchat messages of one
   channel with the same text never both pass when they arrive within
   dedup_window of each other: the later one is blocked *)
C6_OnePerWindow ==
    dedup_window > 0 =>
        \A f, g \in PassedFrames :
            (/\ f.id # g.id
             /\ f.kind = "danmaku" /\ g.kind = "danmaku"
             /\ f.group = g.group
             /\ HasText(f.msg) /\ HasText(g.msg)
             /\ f.msg.text = g.msg.text)
                => Apart(f.time, g.time) > dedup_window

(* three packets within the window, the third one blocked as a duplicate of
   the one message the viewer has been sent *)
C6_Witness ==
    /\ dedup_window = MaxWindow
    /\ now <= MaxWindow
    /\ nb = MaxFilterMsgs
    /\ Len(delivered[1]) = 1
    /\ sock[1] = "open"
    /\ \E u \in Upstreams : up[u].verdict = "duplicate"

(* C7: with dedup_window <= 0 nothing is blocked as a duplicate, neither by
   DanmakuFilter.should_filter nor by the first tier of DedupQueue.add *)
C7_NoDuplicateBlockWhenOff ==
    /\ dedup_window <= 0 => \A u \in Upstreams : up[u].verdict # "duplicate"
    /\ dq.filter_dedup_window <= 0 => dq.last.tier # "tier1"

(* some loaded pattern matches the name *)
NameHit(name, pats) == \E k \in 1..Len(pats) : Search(pats[k], name)

(* C8: for a superchat or gift whose sender id is not forbidden and whose
   sender name matches a pattern, the name part puts an asterisk on every
   character of every match and leaves the other characters and the length
   as they were, and the decision blocks only when the text matches *)
C8_NameStarredNotBlocked ==
    [][\A u \in Upstreams :
          /\ (/\ up[u].pc = "bl_name" /\ up'[u].pc = "bl_text"
              /\ ReadsName(up[u].msg)
              /\ NameHit(up[u].msg.sender, patterns))
                => LET old == up[u].msg.sender
                       new == up'[u].msg.sender
                   IN  /\ Len(new) = Len(old)
                       /\ \A i \in 1..Len(old) : new[i] = old[i] \/ new[i] = Star
                       /\ new # old
                       /\ ~NameHit(new, patterns)
          /\ (/\ up[u].pc = "bl_text" /\ up'[u].pc # "bl_text"
              /\ up[u].msg.sender # up[u].orig.sender)
                => (up'[u].verdict = "blacklist" <=> TextHit(up[u].msg, patterns))]_vars

(* a superchat from Badx has reached a viewer as ***x *)
C8_Witness ==
    \E s \in Sessions : \E i \in 1..Len(delivered[s]) :
        /\ delivered[s][i].msg.type = "superchat"
        /\ delivered[s][i].msg.sender = << Star, Star, Star, "x" >>

(* C9: once the observer thread has handled every change of the patterns
   file, a message whose text matches a pattern of the file is blocked *)
C9_ReloadedPatternBlocks ==
    [][\A u \in Upstreams :
          (/\ up[u].pc = "bl_text" /\ up'[u].pc # "bl_text"
           /\ wpc = "idle" /\ events = << >>
           /\ TextHit(up[u].msg, LoadedPatterns(pattern_file)))
              => up'[u].verdict = "blacklist"]_vars

(* hi has been delivered, the pattern hi has then been added to the file and
   loaded, and a second hi is at the text part of the decision *)
C9_Witness ==
    \E u \in Upstreams :
        /\ up[u].pc = "bl_text"
        /\ up[u].msg.text = Hi
        /\ edits > 0
        /\ pattern_file = << Spam, Hi >>
        /\ wpc = "idle" /\ events = << >>
        /\ \E i \in 1..Len(delivered[1]) : delivered[1][i].msg.text = Hi \o << Crown >>

(* C10: an upstream connection whose token is missing, differs from the
   configured token, or arrives with no token configured is closed with
   code 1008 and is never accepted, registered or broadcast from *)
C10_BadTokenClosed1008 ==
    \A u \in Upstreams :
        (/\ up[u].pc # "new"
         /\ \/ up[u].token = NoStr
            \/ ~config_upstream.present
            \/ up[u].token # config_upstream.token)
            => /\ closeCode[u] = PolicyViolation
               /\ sock[u] # "open"
               /\ up[u].pc = "rejected"
               /\ u \notin upstream_connections
               /\ \A s \in Sessions : delivered[s] = << >>

(* ------------------------------------------------------------------ *)
(* Properties of the upstream frames, of shutdown and of the emoji gates *)
(* ------------------------------------------------------------------ *)
(* the frame of packet id has been sent to a session or is being sent *)
Broadcast(id) ==
    \/ \E s \in Sessions : Got(delivered, s, id)
    \/ \E u \in Upstreams : up[u].pc = "sending" /\ up[u].id = id

(* upstream u takes a frame off its socket with this step *)
Receives(u) == up[u].pc = "recv" /\ nb' = nb + 1

(* C11: a frame that fails packet parsing is broadcast to nobody and leaves
   the upstream registered; once the error frame has gone out on the open
   socket the upstream has been sent that one error frame for the packet,
   is still registered and connected, and is back at receive_text, where
   the next valid frame is broadcast as any other *)
C11_ParseFailureKeepsUpstream ==
    /\ [](\A u \in Upstreams :
            /\ \A i \in 1..Len(errorFrames[u]) :
                  errorFrames[u][i].error = "validation"
                      => ~Broadcast(errorFrames[u][i].id)
            /\ (up[u].error = "validation" /\ up[u].pc = "errsend")
                  => u \in upstream_connections /\ ~Broadcast(up[u].id))
    /\ [][\A u \in Upstreams :
            (/\ up[u].pc = "errsend" /\ up[u].error = "validation"
             /\ sock[u] = "open" /\ up'[u].pc # "errsend")
                => /\ errorFrames'[u] =
                          Append(errorFrames[u],
                                 [id |-> up[u].id, error |-> "validation"])
                   /\ up'[u].pc = "recv"
                   /\ sock'[u] = "open"
                   /\ u \in upstream_connections'
                   /\ delivered' = delivered]_vars

(* the first frame failed parsing and got its error frame, the second one
   has reached the viewer *)
C11_Witness ==
    \E u \in Upstreams :
        /\ errorFrames[u] = << [id |-> 1, error |-> "validation"] >>
        /\ u \in upstream_connections
        /\ sock[u] = "open"
        /\ Got(delivered, 1, 2)

(* C12: every packet DanmakuPacket validation accepts carries exactly one
   of danmaku and control: one with neither is rejected, one with both is
   rejected *)
C12_AcceptedPacketHasOnePayload ==
    \A u \in Upstreams :
        (up[u].packet # "none" /\ up[u].error # "validation")
            => up[u].packet \in {"danmaku", "control"}

(* C13: every danmaku the upstream socket hands to the broadcast has
   is_special = true, and a message of a variant without text that passes
   the filter goes on to the fan-out: the crown step raises nothing and the
   upstream gets no error reply *)
C13_SpecialWithoutTextIsDelivered ==
    [][\A u \in Upstreams :
          /\ (up'[u].kind = "danmaku" /\ up'[u].pc \in {"bl_name", "bl_text", "sending"})
                => up'[u].msg.is_special
          /\ (/\ up[u].pc = "bl_text" /\ up'[u].pc # "bl_text"
              /\ ~HasText(up[u].msg)
              /\ up'[u].verdict # "blacklist")
                => /\ up'[u].result # "raised"
                   /\ up'[u].pc = "sending"]_vars

(* C14: every channel key of the viewer registry maps to a non-empty set,
   whatever connects, disconnects, is broadcast or shut down *)
C14_NoEmptyChannelEntry ==
    \A g \in DOMAIN client_connections : client_connections[g] # {}

(* C15: once the handler of a viewer or of an upstream has ended on a
   failure of its socket (receive_text, or the send of the error frame),
   the session is not in the registry *)
C15_EndedHandlerIsDeregistered ==
    /\ \A v \in Viewers :
          vpc[v] = "done" => v \notin Get(client_connections, GroupOf(v))
    /\ \A u \in Upstreams :
          up[u].pc \in {"done", "crashed"} => u \notin upstream_connections

(* C16: when the filter raises while deciding on a message for a channel
   with viewers, the broadcast goes on as for a message that passed: the
   fan-out starts and no exception reaches the caller *)
C16_FilterExceptionIsPass ==
    [][\A u \in Upstreams :
          (/\ Receives(u)
           /\ danmaku_filter = "raises"
           /\ up'[u].packet = "danmaku"
           /\ up'[u].grp \in DOMAIN client_connections)
              => /\ up'[u].result # "raised"
                 /\ up'[u].pc = "sending"]_vars

(* C17: the frames a viewer has been sent for one channel are in the order
   the upstream sent their packets, messages and controls alike *)
C17_IngestOrderPerViewer ==
    \A s \in Sessions : \A i, j \in 1..Len(delivered[s]) :
        (i < j /\ delivered[s][i].group = delivered[s][j].group)
            => delivered[s][i].id < delivered[s][j].id

(* a viewer has been sent a message and a control, one after the other *)
C17_Witness ==
    \E s \in Sessions :
        /\ Len(delivered[s]) = 2
        /\ delivered[s][1].kind # delivered[s][2].kind
        /\ delivered[s][1].id = 1
        /\ delivered[s][2].id = 2

(* disconnect_all returns with this step *)
DisconnectAllEnds == da.pc # "done" /\ da'.pc = "done"

(* C18: when disconnect_all returns, close has been attempted on every
   viewer registered when it started and on every upstream it found (none
   of them is left open, whether or not a close raised), no session is left
   in the registry, and the watcher of the blacklist is shut down *)
C18_DisconnectAllClosesEverything ==
    [][DisconnectAllEnds
          => /\ \A s \in da'.start \cup da'.snap : sock'[s] # "open"
             /\ \A g \in DOMAIN client_connections' : client_connections'[g] = {}
             /\ upstream_connections' = {}
             /\ ~watchdog']_vars

(* C19: disconnect_client of a session that is not registered on the
   channel leaves the registry as it was, also when the channel has no
   entry: the second disconnect of a session changes nothing *)
C19_SecondDisconnectIsNoOp ==
    [][\A v \in Viewers :
          (/\ vpc[v] = "recv" /\ vpc'[v] = "done"
           /\ v \notin Get(client_connections, GroupOf(v)))
              => client_connections' = client_connections]_vars

(* C20: the load_emoji calls of one user never hold all GLOBAL_LIMIT slots
   of the global semaphore, and a call is never kept waiting at the global
   semaphore while every slot is held by calls of one other user *)
C20_OneUserNeverHoldsAllGlobalSlots ==
    /\ \A user \in EmojiUsers :
          Cardinality({ c \in HoldsGlobal(emoji) : emoji.user[c] = user })
              < GLOBAL_LIMIT
    /\ \A c \in Calls :
          emoji.pc[c] = "wait_global"
              => ~\E user \in EmojiUsers \ {emoji.user[c]} :
                    \A d \in HoldsGlobal(emoji) : emoji.user[d] = user

(* ------------------------------------------------------------------ *)
(* Properties of the emoji cache, of the builder and of the two tiers   *)
(* ------------------------------------------------------------------ *)
(* the calls inside the section the two semaphores guard *)
InDownload(e) == { c \in Calls : e.pc[c] = "download" }

(* C21: at most GLOBAL_LIMIT load_emoji calls are inside the download
   section, at most PER_USER_LIMIT of them for one user, and a call that
   has left it (by a return or by an exception) holds no slot: the free
   slots and the slots held by the calls still inside add up to the limit
   of each semaphore *)
C21_GatesBoundDownloads ==
    /\ Cardinality(InDownload(emoji)) <= GLOBAL_LIMIT
    /\ emoji.global_sem.value >= 0
    /\ emoji.global_sem.value + Cardinality(HoldsGlobal(emoji)) = GLOBAL_LIMIT
    /\ \A user \in DOMAIN emoji.user_sems :
          /\ Cardinality({ c \in InDownload(emoji) : emoji.user[c] = user })
                <= PER_USER_LIMIT
          /\ emoji.user_sems[user].value >= 0
          /\ emoji.user_sems[user].value
                + Cardinality({ c \in InDownload(emoji) : emoji.user[c] = user })
                = PER_USER_LIMIT

(* three calls of one user download while a fourth waits for the user's
   semaphore, and a call has left by the exception of import_emoji_sync *)
C21_Witness ==
    /\ \E user \in EmojiUsers :
          /\ Cardinality({ c \in InDownload(emoji) : emoji.user[c] = user })
                = PER_USER_LIMIT
          /\ \E c \in Calls : emoji.pc[c] = "wait_user" /\ emoji.user[c] = user
    /\ emoji.last.ret = "raised"
    /\ \E c \in Calls : emoji.pc[c] = "done"

(* the entry of key in the store *)
Entry(store, key) == store[StoreIndex(store, key)]

(* GET /emoji/{key} is served with this step *)
GetStep ==
    /\ emoji'.last.op = "get_emoji"
    /\ emoji'.pc = emoji.pc
    /\ emoji'.wake = emoji.wake
    /\ now' = now

(* cleanup_loop makes a pass with this step *)
CleanupStep == emoji'.wake # emoji.wake

(* C22: an entry leaves the store before its expiry only when the
   maintenance pass evicts for size; get of a key whose entry has not
   expired is a hit that sets last_access to the time of the access and
   expire to that time + TTL_SECONDS; get of an absent or expired key is a
   miss, and leaves no entry of the key *)
C22_HitKeepsEntryAlive ==
    [][/\ \A key \in StoreKeys(emoji.store) \ StoreKeys(emoji'.store) :
             Entry(emoji.store, key).expire >= now
                => CleanupStep /\ Len(emoji.store) > MAX_CACHE_SIZE
       /\ GetStep =>
             LET key == emoji'.last.key
             IN  IF /\ key \in StoreKeys(emoji.store)
                    /\ Entry(emoji.store, key).expire >= now
                 THEN /\ emoji'.last.ret = "item"
                      /\ key \in StoreKeys(emoji'.store)
                      /\ Entry(emoji'.store, key).last_access = now
                      /\ Entry(emoji'.store, key).expire = now + TTL_SECONDS
                 ELSE /\ emoji'.last.ret = "404"
                      /\ key \notin StoreKeys(emoji'.store)]_vars

(* a get TTL_SECONDS after the cache was made has hit, after a pass of
   cleanup_loop at that time: the entry has its new expiry *)
C22_Witness ==
    /\ emoji.last = Ended("get_emoji", "item", Md5("webp_static"), NoContent, "-")
    /\ now = TTL_SECONDS
    /\ emoji.wake > now
    /\ Entry(emoji.store, Md5("webp_static")).expire = now + TTL_SECONDS

(* C23: right after a pass of cleanup_loop the store holds no entry with
   expire < now and at most MAX_CACHE_SIZE entries, and every entry the
   pass evicted for size (one that had not expired) has a last_access no
   later than that of every entry the pass kept *)
C23_PassLeavesLiveBoundedStore ==
    [][CleanupStep =>
          /\ \A i \in 1..Len(emoji'.store) : ~(emoji'.store[i].expire < now)
          /\ Len(emoji'.store) <= MAX_CACHE_SIZE
          /\ \A key \in StoreKeys(emoji.store) \ StoreKeys(emoji'.store) :
                Entry(emoji.store, key).expire >= now
                   => \A i \in 1..Len(emoji'.store) :
                         Entry(emoji.store, key).last_access
                             <= emoji'.store[i].last_access]_vars

(* a pass has evicted for size: the store is full, the oldest of the
   entries it started with is gone before its expiry, an image loaded later
   is kept *)
C23_Witness ==
    /\ emoji.last.op = "cleanup_loop"
    /\ now > 0
    /\ now <= TTL_SECONDS
    /\ Len(emoji.store) = MAX_CACHE_SIZE
    /\ 1 \notin StoreKeys(emoji.store)
    /\ \E key \in StoreKeys(emoji.store) :
          key > MAX_CACHE_SIZE /\ Entry(emoji.store, key).last_access = now

(* a call of load_emoji runs to its end with this step *)
LoadStep ==
    /\ emoji'.last.op = "load_emoji"
    /\ \E c \in Calls : emoji.pc[c] = "download" /\ emoji'.pc[c] = "done"

(* C24: when a call of load_emoji returns a key, get of that key in the
   state the call leaves returns the entry, whatever other calls and
   passes of cleanup_loop came before *)
C24_ReturnedKeyIsCached ==
    [][(LoadStep /\ emoji'.last.ret = "key")
          => CacheGet(emoji'.store, emoji'.last.key, now').hit]_vars

(* a call has returned a key while the other call is downloading, after a
   pass of cleanup_loop on a full store *)
C24_Witness ==
    /\ emoji.last.op = "load_emoji"
    /\ emoji.last.ret = "key"
    /\ \E c \in Calls : emoji.pc[c] = "download"
    /\ emoji.wake > 0
    /\ Len(emoji.store) > MAX_CACHE_SIZE

(* C25: a call of load_emoji whose download normalizes to bytes the store
   holds under their key returns that key, whoever the user and whatever
   the bytes downloaded, and leaves the store with the entries it had *)
C25_ReingestKeepsOneEntry ==
    [][(/\ LoadStep
        /\ emoji'.last.content # NoContent
        /\ Decodes(emoji'.last.content)
        /\ Md5(Normalized(emoji'.last.content)) \in StoreKeys(emoji.store))
          => /\ emoji'.last.ret = "key"
             /\ emoji'.last.key = Md5(Normalized(emoji'.last.content))
             /\ Len(emoji'.store) = Len(emoji.store)
             /\ StoreKeys(emoji'.store) = StoreKeys(emoji.store)]_vars

(* the calls of the two users have both ended, the second one on other
   bytes of the same picture, found by get: the store holds one entry *)
C25_Witness ==
    /\ \A c \in StoreCalls : emoji.pc[c] = "done"
    /\ emoji.last = Ended("load_emoji", "key", Md5("webp_static"), "png2", "get")
    /\ Len(emoji.store) = 1

(* C26: when the bytes downloaded are no image, load_emoji returns None to
   its caller and raises nothing, the store is left as it was and both
   semaphores get their slots back *)
C26_DecodeFailureReturnsNone ==
    [][(LoadStep /\ emoji'.last.content # NoContent
                 /\ ~Decodes(emoji'.last.content))
          => /\ emoji'.last.ret = "null"
             /\ emoji'.store = emoji.store
             /\ Cardinality(HoldsGlobal(emoji')) + emoji'.global_sem.value
                    = GLOBAL_LIMIT]_vars

(* the plain message with position top, colour #ff0000 and text hello *)
TopRedHello ==
    [type |-> "plain", text |-> Hello, position |-> "top", color |-> Red6]

(* the plain message create makes of a text it takes as it is *)
Bare(text) ==
    [type |-> "plain", text |-> text, position |-> "scroll", color |-> NoColor]

(* C27: directives in front of the text and directives behind it are both
   honoured: create makes the message with text hello, position top and
   colour #ff0000 of the text with the two directives in front of hello and
   of the text with them behind hello, and a bare plain message with the
   original text when the directive stands between two words *)
C27_PrefixAndSuffixDirectives ==
    built.result # NotBuilt =>
        /\ built.elements = Top \o Sp \o Red6 \o Sp \o Hello
              => built.result = TopRedHello
        /\ built.elements = Hello \o Sp \o Top \o Sp \o Red6
              => built.result = TopRedHello
        /\ built.elements = Hello \o Sp \o Top \o Sp \o Hello
              => built.result = Bare(built.elements)

(* C28: of a text with no position directive in it (none of its characters
   is the slash) create makes a plain message with position scroll, also
   when the text carries a colour directive: create returns a message and
   raises nothing *)
C28_DefaultPositionIsScroll ==
    (/\ built.result # NotBuilt
     /\ \A i \in 1..Len(built.elements) : built.elements[i] # "/")
        => /\ built.result.type = "plain"
           /\ built.result.position = "scroll"

(* C29: a message for a channel with no registered viewer is sent to
   nobody and is not shown to the filter: broadcast_to_group returns at
   once, and the messages remembered for the dedup are as they were *)
C29_NoViewersShortCircuit ==
    [][\A u \in Upstreams :
          (/\ Receives(u)
           /\ up'[u].packet = "danmaku"
           /\ Get(client_connections, up'[u].grp) = {})
              => /\ up'[u].pc = "recv"
                 /\ up'[u].verdict = "noviewers"
                 /\ recent_messages' = recent_messages
                 /\ delivered' = delivered]_vars

(* the entries of a queue *)
Entries(queue) == { queue[i] : i \in 1..Len(queue) }

(* DedupQueue.add is called with this step *)
AddStep == dq'.adds = dq.adds + 1

(* C30: an entry is put into tier 1 with the verdict of the blacklist check
   of its add; an entry that leaves tier 1 is put into tier 2 as it is,
   key, time and verdict (unless it is too old for tier 2 as well), and
   blacklist_seen holds that verdict for its key; an add whose key misses
   tier 1 and hits tier 2 returns the stored verdict and appends to neither
   tier *)
C30_SecondTierKeepsVerdict ==
    [][AddStep =>
          /\ \A e \in Entries(dq'.filter_queue) \ Entries(dq.filter_queue) :
                /\ dq'.last.tier = "blacklist"
                /\ e.key = dq'.last.key
                /\ e.verdict = (dq'.last.ret = "blocked")
          /\ \A e \in Entries(dq.filter_queue) \ Entries(dq'.filter_queue) :
                \/ e \in Entries(dq'.blacklist_queue)
                \/ now - e.ts > dq.blacklist_dedup_window
          /\ \A e \in Entries(dq'.blacklist_queue) :
                /\ e \in Entries(dq.filter_queue) \cup Entries(dq.blacklist_queue)
                /\ SeenGet(dq'.blacklist_seen, e.key) = e.verdict
          /\ dq'.last.tier = "tier2" =>
                /\ dq'.last.key \notin dq'.filter_seen
                /\ \E e \in Entries(dq'.blacklist_queue) :
                      /\ e.key = dq'.last.key
                      /\ e.verdict = (dq'.last.ret = "blocked")
                /\ Entries(dq'.filter_queue) \subseteq Entries(dq.filter_queue)]_vars

(* an add has hit tier 2 and returned the verdict stored there, passed,
   though the blacklist as reloaded since would block the message *)
C30_Witness ==
    /\ dq.last.tier = "tier2"
    /\ dq.last.ret = "passed"
    /\ dq.last.key = MessageKey(PlainHi)
    /\ BlacklistVerdict(PlainHi)

(* ------------------------------------------------------------------ *)
(* Properties of the dedup keys and of the two tiers                    *)
(* ------------------------------------------------------------------ *)
(* DanmakuFilter.should_filter run on m for channel g at this moment finds
   a duplicate *)
FilterDuplicate(g, m) == IsDuplicate([grp |-> g, time |-> now, msg |-> m])

(* DedupQueue.add called with m at this moment finds the key in tier 1 *)
QueueDuplicate(m) == Add(dq, m, now, now).last.tier = "tier1"

(* two messages of one text whose sender names differ *)
SameTextOtherSender(m, m2) == m.text = m2.text /\ m.sender # m2.sender

(* the fan-out of task u started at this moment: its message has just
   passed the filter, which remembers no other *)
JustPassed(u) ==
    /\ up[u].pc = "sending" /\ up[u].kind = "danmaku" /\ up[u].time = now
    /\ Len(recent_messages[up[u].grp]) = 1

(* the last add put its key into tier 1 at this moment, and the tiers hold
   no other *)
JustAdded ==
    /\ dq.last.tier = "blacklist" /\ dq.last.ts = now
    /\ Len(dq.filter_queue) = 1 /\ dq.blacklist_queue = << >>

(* the part of C31 on DedupQueue: of the messages with the text of the one
   just added, a superchat of another sender is no tier-1 duplicate and a
   plain message of another sender is one *)
C31_QueueKeys ==
    (JustAdded /\ dq.filter_dedup_window >= 0) =>
        \A m, m2 \in SenderMessages :
            (MessageKey(m) = dq.last.key /\ SameTextOtherSender(m, m2)) =>
                /\ (m.type = "superchat" /\ m2.type = "superchat")
                      => ~QueueDuplicate(m2)
                /\ (m.type = "plain" /\ m2.type = "plain") => QueueDuplicate(m2)

(* C31: the key is (sender, text) for a superchat and (None, text) for a
   plain message; once a superchat has passed the deduplicator, a superchat
   with the same text and another sender name is no duplicate of it, and
   once a plain message has passed, a plain message with the same text from
   another sender is a duplicate, in DedupQueue.add and in
   DanmakuFilter.should_filter alike *)
C31_KeysSeparateSenders ==
    /\ \A m \in SenderMessages :
          MessageKey(m) = << IF m.type = "superchat" THEN m.sender ELSE NoStr,
                             m.text >>
    /\ C31_QueueKeys
    /\ \A u \in Upstreams : JustPassed(u) =>
          \A m2 \in SenderMessages : SameTextOtherSender(up[u].orig, m2) =>
              /\ (up[u].orig.type = "superchat" /\ m2.type = "superchat")
                    => ~FilterDuplicate(up[u].grp, m2)
              /\ (up[u].orig.type = "plain" /\ m2.type = "plain")
                    => FilterDuplicate(up[u].grp, m2)

(* the same with the superchats left to the filter as it is: there a
   superchat with the text of one that passed is a duplicate of it *)
C31_FilterKeysByText ==
    \A u \in Upstreams : JustPassed(u) =>
        \A m2 \in SenderMessages :
            (up[u].orig.text = m2.text) => FilterDuplicate(up[u].grp, m2)

(* a superchat of Ann has passed the DedupQueue while the one of Badx, with
   the same text, is in tier 1 *)
C31_QueueWitness ==
    /\ dq.last.tier = "blacklist"
    /\ dq.last.key = MessageKey(SuperchatAnn)
    /\ MessageKey(SuperchatHi) \in dq.filter_seen

(* the two tiers of a DedupQueue *)
Tiers(q) == << q.filter_queue, q.filter_seen, q.blacklist_queue, q.blacklist_seen >>

(* this step is a call of DedupQueue.add with message m *)
AddOf(m) ==
    /\ AddStep
    /\ dq' = [Add(dq, m, now, now') EXCEPT !.adds = dq.adds + 1]

(* this step is the decision of DanmakuFilter.should_filter on the message
   of task u, after the blacklist *)
Decides(u) == up[u].pc = "bl_text" /\ up'[u].pc # "bl_text"

(* C32: a message without a text field (emote, gift) is never blocked as a
   duplicate, the deduplicator completes normally on it (it returns a
   verdict and raises nothing), and its queues are what the maintenance of
   the windows alone leaves; in DedupQueue.add and in
   DanmakuFilter.should_filter *)
C32_NoTextBypassesDedup ==
    [][/\ \A m \in NoTextMessages : AddOf(m) =>
              /\ dq'.last.ret \in {"passed", "blocked"}
              /\ dq'.last.tier # "tier1"
              /\ Tiers(dq') = Tiers(CleanQueue(dq, now))
       /\ \A u \in Upstreams :
              (Decides(u) /\ ~HasText(up[u].msg) /\ up'[u].verdict # "blacklist")
                  => /\ up'[u].verdict = "pass"
                     /\ recent_messages' = recent_messages]_vars

(* what add does with such a message: it raises AttributeError, after the
   maintenance of the windows and with the tiers otherwise as they were *)
C32_NoTextRaises ==
    [][\A m \in NoTextMessages : AddOf(m) =>
              /\ dq'.last.ret = "AttributeError"
              /\ Tiers(dq') = Tiers(CleanQueue(dq, now))]_vars

(* the part of C32 on DanmakuFilter.should_filter *)
C32_FilterBypass ==
    [][\A u \in Upstreams :
          (Decides(u) /\ ~HasText(up[u].msg) /\ up'[u].verdict # "blacklist")
              => /\ up'[u].verdict = "pass"
                 /\ recent_messages' = recent_messages]_vars

(* this add and the one before it were given the same key, and arrived
   within the window of tier 1 of each other (a message arrives when the
   clock is read last in its add) *)
SameKeyInWindow ==
    /\ AddStep
    /\ dq.filter_dedup_window > 0
    /\ dq.last.ret \in {"passed", "blocked"}
    /\ dq'.last.ret \in {"passed", "blocked"}
    /\ dq'.last.key = dq.last.key
    /\ dq'.last.ts - dq.last.ts <= dq.filter_dedup_window

(* C33: of two messages with the same key that arrive within dedup_window
   seconds of each other (dedup_window > 0), add does not return
   not-blocked for both *)
C33_NoTwoPassesInWindow ==
    [][SameKeyInWindow => ~(dq.last.ret = "passed" /\ dq'.last.ret = "passed")]_vars

(* what add does guarantee: the message that follows, within the window,
   one whose key was put into tier 1 is blocked *)
C33_BlockedAfterTierOneEntry ==
    [][(SameKeyInWindow /\ dq.last.tier = "blacklist")
          => (dq'.last.ret = "blocked" /\ dq'.last.tier = "tier1")]_vars

(* two adds of one key at one instant both return not-blocked: the key is
   in tier 2 with a verdict of not-blocked *)
C33_TwoPassesAtOnce ==
    /\ dq.filter_dedup_window > 0
    /\ dq.last.tier = "tier2"
    /\ dq.last.ret = "passed"
    /\ dq.last.ts = now
    /\ Add(dq, PlainHi, now, now).last = dq.last

(* a loaded pattern matches the sender name of m *)
NameMatches(m) == \E k \in 1..Len(patterns) : Search(patterns[k], m.sender)

(* C34: a superchat for which add returns not-blocked has, when add
   returns, a sender name no loaded pattern matches, whether the verdict
   was computed by the blacklist or taken from tier 2 *)
C34_PassedSuperchatNameIsClean ==
    [][\A m \in DedupQueueMessages :
          (AddOf(m) /\ m.type = "superchat" /\ dq'.last.ret = "passed")
              => ~NameMatches(MessageAfterAdd(dq, m, now))]_vars

(* the same for the verdicts the blacklist computed in that add *)
C34_ComputedVerdictNameIsClean ==
    [][\A m \in DedupQueueMessages :
          (/\ AddOf(m) /\ m.type = "superchat" /\ dq'.last.ret = "passed"
           /\ dq'.last.tier = "blacklist")
              => ~NameMatches(MessageAfterAdd(dq, m, now))]_vars

(* C35: for a message with a text that is no tier-1 duplicate, the verdict
   add returns is the verdict of the blacklist as it is loaded at that
   call, also when it was reloaded since the key was first seen *)
C35_VerdictOfLoadedBlacklist ==
    [][\A m \in DedupQueueMessages :
          (/\ AddOf(m) /\ HasText(m)
           /\ dq'.last.ret \in {"passed", "blocked"}
           /\ dq'.last.tier # "tier1")
              => (dq'.last.ret = "blocked") = BlacklistVerdict(m)]_vars

(* the same for the adds that found the key in neither tier *)
C35_FreshVerdictOfLoadedBlacklist ==
    [][\A m \in DedupQueueMessages :
          (AddOf(m) /\ HasText(m) /\ dq'.last.tier = "blacklist")
              => (dq'.last.ret = "blocked") = BlacklistVerdict(m)]_vars

(* the sessions in the registry *)
Registered(cc, ups) == UNION { cc[g] : g \in DOMAIN cc } \cup ups

(* disconnect_all runs on with this step: it starts, or an awaited close
   has completed *)
DisconnectAllStep == da'.pc # da.pc \/ da'.closing # da.closing

(* C36: a session disconnect_all takes out of the registry has had close
   attempted on it, so its socket is not left open, also when viewers
   connect or disconnect while disconnect_all is suspended in a close *)
C36_DroppedSessionsAreClosed ==
    [][DisconnectAllStep =>
          \A s \in Registered(client_connections, upstream_connections)
                     \ Registered(client_connections', upstream_connections') :
              sock'[s] # "open"]_vars

(* the same for the sessions that were registered when disconnect_all
   started or were in its list of upstreams *)
C36_SnapshotSessionsAreClosed ==
    [][DisconnectAllStep =>
          \A s \in (Registered(client_connections, upstream_connections)
                      \ Registered(client_connections', upstream_connections'))
                   \cap (da'.start \cup da'.snap \cup da.snap) :
              sock'[s] # "open"]_vars

(* the keys of the entries of a queue *)
QueueKeys(queue) == { queue[i].key : i \in 1..Len(queue) }

(* no key occurs twice in the queue *)
KeysOnce(queue) ==
    \A i, j \in 1..Len(queue) : queue[i].key = queue[j].key => i = j

(* C37: between the calls of add, filter_seen is the set of the keys in
   filter_queue, the keys of blacklist_seen are the keys in blacklist_queue,
   no key occurs twice in either queue, no key is in both tiers, and
   filter_seen.remove has never raised KeyError in _clean_queue *)
C37_TiersAreConsistent ==
    /\ dq.filter_seen = QueueKeys(dq.filter_queue)
    /\ SeenKeys(dq.blacklist_seen) = QueueKeys(dq.blacklist_queue)
    /\ KeysOnce(dq.filter_queue)
    /\ KeysOnce(dq.blacklist_queue)
    /\ dq.filter_seen \cap SeenKeys(dq.blacklist_seen) = {}
    /\ dq.last.ret # "KeyError"

(* _clean_queue has moved an entry into tier 2, taking its key out of
   filter_seen, and the last add, made once the window of tier 2 had gone
   by, has put its key into tier 1 *)
C37_Witness ==
    /\ dq.adds = MaxFilterMsgs
    /\ dq.last.tier = "blacklist"
    /\ dq.blacklist_queue # << >>
    /\ \E i \in 1..Len(dq.filter_queue) :
          /\ dq.filter_queue[i].key = dq.last.key
          /\ dq.filter_queue[i].ts > dq.blacklist_dedup_window

====
